---------------------------- MODULE Spec2Model ----------------------------
(***************************************************************************)
(* A model of browser-script-to-extension: build.py's build_script and the *)
(* components it composes (parser, validator, fetcher, manifest generator, *)
(* code converter, icon generator).                                        *)
(*                                                                         *)
(* Representation of Python values:                                        *)
(*   - a str whose characters the code inspects (startswith, lstrip,       *)
(*     split, len, comparison when sorting) is a sequence of one-character *)
(*     strings, so "1.0" is <<"1", ".", "0">> and '' is <<>>;              *)
(*   - a multi-line text that the code only joins (the script body, the    *)
(*     shim snippets, content.js) is the sequence of its lines, each line  *)
(*     an atomic string: text.split('\n').  '' is the one-line text <<"">>;*)
(*   - Optional[str] is <<>> (None) or <<s>>;                              *)
(*   - a dict is a function, its keys the DOMAIN.                          *)
(***************************************************************************)
EXTENDS Integers, Sequences, FiniteSets, TLC

(***************************************************************************)
(* Bounds of the model.                                                    *)
(***************************************************************************)
MaxGrants == 2
MaxRequires == 2
MaxVersionLen == 3
MaxConnects == 2
MaxScreenshots == 6

(***************************************************************************)
(* String literals of the source, as character sequences.                  *)
(***************************************************************************)
s_none == <<"n", "o", "n", "e">>
s_GM_addStyle == <<"G", "M", "_", "a", "d", "d", "S", "t", "y", "l", "e">>
s_GM_setValue == <<"G", "M", "_", "s", "e", "t", "V", "a", "l", "u", "e">>
s_GM_getValue == <<"G", "M", "_", "g", "e", "t", "V", "a", "l", "u", "e">>
s_GM_deleteValue == <<"G", "M", "_", "d", "e", "l", "e", "t", "e", "V", "a", "l", "u", "e">>
s_GM_listValues == <<"G", "M", "_", "l", "i", "s", "t", "V", "a", "l", "u", "e", "s">>
s_GM_xmlHttpRequest == <<"G", "M", "_", "x", "m", "l", "H", "t", "t", "p", "R", "e", "q", "u", "e", "s", "t">>
s_GM_notification == <<"G", "M", "_", "n", "o", "t", "i", "f", "i", "c", "a", "t", "i", "o", "n">>
s_GM_setClipboard == <<"G", "M", "_", "s", "e", "t", "C", "l", "i", "p", "b", "o", "a", "r", "d">>
s_GM_openInTab == <<"G", "M", "_", "o", "p", "e", "n", "I", "n", "T", "a", "b">>
s_GM_download == <<"G", "M", "_", "d", "o", "w", "n", "l", "o", "a", "d">>
s_GMdot_setValue == <<"G", "M", ".", "s", "e", "t", "V", "a", "l", "u", "e">>
s_GMdot_getValue == <<"G", "M", ".", "g", "e", "t", "V", "a", "l", "u", "e">>
s_GMdot_deleteValue == <<"G", "M", ".", "d", "e", "l", "e", "t", "e", "V", "a", "l", "u", "e">>
s_GMdot_listValues == <<"G", "M", ".", "l", "i", "s", "t", "V", "a", "l", "u", "e", "s">>
s_GMdot_xmlHttpRequest == <<"G", "M", ".", "x", "m", "l", "H", "t", "t", "p", "R", "e", "q", "u", "e", "s", "t">>
s_GMdot_notification == <<"G", "M", ".", "n", "o", "t", "i", "f", "i", "c", "a", "t", "i", "o", "n">>
s_GMdot_setClipboard == <<"G", "M", ".", "s", "e", "t", "C", "l", "i", "p", "b", "o", "a", "r", "d">>
s_GMdot_openInTab == <<"G", "M", ".", "o", "p", "e", "n", "I", "n", "T", "a", "b">>
s_GMdot_download == <<"G", "M", ".", "d", "o", "w", "n", "l", "o", "a", "d">>
s_unsafeWindow == <<"u", "n", "s", "a", "f", "e", "W", "i", "n", "d", "o", "w">>
s_all_urls == <<"<", "a", "l", "l", "_", "u", "r", "l", "s", ">">>
s_storage == <<"s", "t", "o", "r", "a", "g", "e">>
s_notifications == <<"n", "o", "t", "i", "f", "i", "c", "a", "t", "i", "o", "n", "s">>
s_clipboardWrite == <<"c", "l", "i", "p", "b", "o", "a", "r", "d", "W", "r", "i", "t", "e">>
s_tabs == <<"t", "a", "b", "s">>
s_downloads == <<"d", "o", "w", "n", "l", "o", "a", "d", "s">>
s_Unnamed_Script == <<"U", "n", "n", "a", "m", "e", "d", " ", "S", "c", "r", "i", "p", "t">>
s_Foo == <<"F", "o", "o">>
s_Bar == <<"B", "a", "r">>
s_MIT == <<"M", "I", "T">>
s_v100 == <<"1", ".", "0", ".", "0">>
s_document_end == <<"d", "o", "c", "u", "m", "e", "n", "t", "-", "e", "n", "d">>
s_document_start == <<"d", "o", "c", "u", "m", "e", "n", "t", "-", "s", "t", "a", "r", "t">>
s_document_idle == <<"d", "o", "c", "u", "m", "e", "n", "t", "-", "i", "d", "l", "e">>
s_document_end_ == <<"d", "o", "c", "u", "m", "e", "n", "t", "_", "e", "n", "d">>
s_document_start_ == <<"d", "o", "c", "u", "m", "e", "n", "t", "_", "s", "t", "a", "r", "t">>
s_document_idle_ == <<"d", "o", "c", "u", "m", "e", "n", "t", "_", "i", "d", "l", "e">>
s_content_js == <<"c", "o", "n", "t", "e", "n", "t", ".", "j", "s">>
s_manifest_json == <<"m", "a", "n", "i", "f", "e", "s", "t", ".", "j", "s", "o", "n">>
s_lib == <<"l", "i", "b">>
s_icons == <<"i", "c", "o", "n", "s">>
s_lib_slash == <<"l", "i", "b", "/">>
s_icon16_png == <<"i", "c", "o", "n", "1", "6", ".", "p", "n", "g">>
s_icon48_png == <<"i", "c", "o", "n", "4", "8", ".", "p", "n", "g">>
s_icon128_png == <<"i", "c", "o", "n", "1", "2", "8", ".", "p", "n", "g">>
s_dot_js == <<".", "j", "s">>
s_foo_bar_js == <<"f", "o", "o", "-", "b", "a", "r", ".", "j", "s">>
s_example_com == <<"e", "x", "a", "m", "p", "l", "e", ".", "c", "o", "m">>
s_match_example == <<"h", "t", "t", "p", "s", ":", "/", "/", "e", "x", "a", "m", "p", "l", "e", ".", "c", "o", "m", "/", "*">>
s_dot_png == <<".", "p", "n", "g">>
s_dot_jpg == <<".", "j", "p", "g">>
s_icon_png == <<"i", "c", "o", "n", ".", "p", "n", "g">>
s_dot_0 == <<".", "0">>
s_icons_slash == <<"i", "c", "o", "n", "s", "/">>
s_url_foo == <<"h", "t", "t", "p", "s", ":", "/", "/", "e", "x", "a", "m", "p", "l", "e", ".", "c", "o", "m", "/", "l", "i", "b", "/", "f", "o", "o", "-", "b", "a", "r", ".", "j", "s">>
s_url_foo2 == <<"h", "t", "t", "p", "s", ":", "/", "/", "c", "d", "n", ".", "t", "e", "s", "t", "/", "v", "2", "/", "f", "o", "o", "-", "b", "a", "r", ".", "j", "s", "?", "m", "i", "n", "=", "1">>
s_url_jquery == <<"h", "t", "t", "p", "s", ":", "/", "/", "c", "d", "n", ".", "t", "e", "s", "t", "/", "n", "p", "m", "/", "j", "q", "u", "e", "r", "y">>
s_v10 == <<"1", ".", "0">>
s_v23 == <<"v", "2", ".", "3">>
s_1234 == <<"1", ".", "2", ".", "3", ".", "4">>
s_V100 == <<"V", "1", ".", "0", ".", "0">>
s_beta == <<"b", "e", "t", "a">>
s_api_test == <<"a", "p", "i", ".", "t", "e", "s", "t">>
s_vV == <<"v", "V">>

(***************************************************************************)
(* Python compares str by code point; Ascii lists the printable ASCII      *)
(* characters in code-point order (from U+0020); the lexer takes no        *)
(* backquote in a string, so U+0060 is held by a placeholder.              *)
(***************************************************************************)
Ascii ==
    <<" ", "!", "\"", "#", "$", "%", "&", "'", "(", ")", "*", "+", ",", "-", ".", "/", "0", "1", "2", "3", "4", "5", "6", "7", "8", "9", ":", ";", "<", "=", ">", "?", "@", "A", "B", "C", "D", "E", "F", "G", "H", "I", "J", "K", "L", "M", "N", "O", "P", "Q", "R", "S", "T", "U", "V", "W", "X", "Y", "Z", "[", "\\", "]", "^", "_", "<backtick>", "a", "b", "c", "d", "e", "f", "g", "h", "i", "j", "k", "l", "m", "n", "o", "p", "q", "r", "s", "t", "u", "v", "w", "x", "y", "z", "{", "|", "}", "~">>

Ord(c) == CHOOSE i \in 1..Len(Ascii) : Ascii[i] = c

Digits == {"0", "1", "2", "3", "4", "5", "6", "7", "8", "9"}

\* str.__lt__: lexicographic by code point, a proper prefix is smaller.
RECURSIVE StrLess(_, _)
StrLess(a, b) ==
    IF b = <<>> THEN FALSE
    ELSE IF a = <<>> THEN TRUE
    ELSE IF Head(a) = Head(b) THEN StrLess(Tail(a), Tail(b))
    ELSE Ord(Head(a)) < Ord(Head(b))

\* sorted(list(S)) for a set S of str.
RECURSIVE Sorted(_)
Sorted(S) ==
    IF S = {} THEN <<>>
    ELSE LET m == CHOOSE x \in S : \A y \in S \ {x} : StrLess(x, y)
         IN  <<m>> \o Sorted(S \ {m})

\* str.startswith(prefix)
StartsWith(s, prefix) ==
    /\ Len(s) >= Len(prefix)
    /\ SubSeq(s, 1, Len(prefix)) = prefix

\* str.endswith(suffix)
EndsWith(s, suffix) ==
    /\ Len(s) >= Len(suffix)
    /\ SubSeq(s, Len(s) - Len(suffix) + 1, Len(s)) = suffix

\* str.lstrip(chars): drops every leading character that is in chars.
RECURSIVE LStrip(_, _)
LStrip(s, chars) ==
    IF s /= <<>> /\ \E i \in 1..Len(chars) : chars[i] = Head(s)
    THEN LStrip(Tail(s), chars)
    ELSE s

\* str.split(sep) for a one-character sep: ''.split('.') is [''].
RECURSIVE Split(_, _)
Split(s, sep) ==
    IF \A i \in 1..Len(s) : s[i] /= sep THEN <<s>>
    ELSE LET i == CHOOSE k \in 1..Len(s) :
                      s[k] = sep /\ \A j \in 1..(k - 1) : s[j] /= sep
         IN  <<SubSeq(s, 1, i - 1)>> \o Split(SubSeq(s, i + 1, Len(s)), sep)

\* s * n for a str s.
Repeat(s, n) == [i \in 1..(n * Len(s)) |-> s[((i - 1) % Len(s)) + 1]]

\* The one element of a one-element set; { e(x) : x \in {v} } evaluates v
\* once, where LET x == v would evaluate it at every use of x.
The(S) == CHOOSE x \in S : TRUE

\* The elements of a list, as a set.
Range(f) == {f[i] : i \in DOMAIN f}

\* All lists over S of length at most n.
SeqsUpTo(S, n) == UNION {[1..k -> S] : k \in 0..n}

\* sep.join(parts) for texts held as line sequences: '\n'.join glues the
\* parts' lines (blank = 0), '\n\n'.join puts one empty line between two
\* parts (blank = 1).  ''.join of no part is ''.
RECURSIVE JoinLines(_, _)
JoinLines(parts, blank) ==
    IF parts = <<>> THEN <<"">>
    ELSE IF Len(parts) = 1 THEN parts[1]
    ELSE parts[1] \o [i \in 1..blank |-> ""] \o JoinLines(Tail(parts), blank)

(***************************************************************************)
(* src/parser.py                                                           *)
(***************************************************************************)
s_GM == <<"G", "M">>

\* Python's None; no str equals it (its one element is not a character).
None == <<"None">>

\* A value used as a condition: '' and None are false.
Truthy(v) == v /= <<>> /\ v /= None

\* UserScriptMetadata.uses_gm_api
uses_gm_api(md) ==
    \E i \in DOMAIN md.grant_permissions :
        /\ md.grant_permissions[i] /= s_none
        /\ StartsWith(md.grant_permissions[i], s_GM)

IsGmGrant(grant) == grant /= s_none /\ StartsWith(grant, s_GM)

\* UserScriptMetadata.get_required_apis
get_required_apis(md) == SelectSeq(md.grant_permissions, IsGmGrant)

\* A line of the metadata block, after METADATA_LINE_PATTERN was tried on
\* it: a directive line "// @<key> <value>" carries its two groups, any
\* other line does not match.
DirectiveLine(k, v) == [match |-> TRUE, key |-> k, value |-> v]
OtherLine == [match |-> FALSE, key |-> <<>>, value |-> <<>>]

EmptyDict == [k \in {} |-> <<>>]

\* The directive keys parse reads.
k_name == <<"n", "a", "m", "e">>
k_namespace == <<"n", "a", "m", "e", "s", "p", "a", "c", "e">>
k_version == <<"v", "e", "r", "s", "i", "o", "n">>
k_description == <<"d", "e", "s", "c", "r", "i", "p", "t", "i", "o", "n">>
k_author == <<"a", "u", "t", "h", "o", "r">>
k_license == <<"l", "i", "c", "e", "n", "s", "e">>
k_match == <<"m", "a", "t", "c", "h">>
k_grant == <<"g", "r", "a", "n", "t">>
k_require == <<"r", "e", "q", "u", "i", "r", "e">>
k_resource == <<"r", "e", "s", "o", "u", "r", "c", "e">>
k_connect == <<"c", "o", "n", "n", "e", "c", "t">>
k_icon == <<"i", "c", "o", "n">>
k_updateURL == <<"u", "p", "d", "a", "t", "e", "U", "R", "L">>
k_downloadURL == <<"d", "o", "w", "n", "l", "o", "a", "d", "U", "R", "L">>
k_supportURL == <<"s", "u", "p", "p", "o", "r", "t", "U", "R", "L">>
k_homepage == <<"h", "o", "m", "e", "p", "a", "g", "e">>
k_run_at == <<"r", "u", "n", "-", "a", "t">>
k_runAt == <<"r", "u", "n", "A", "t">>

s_opening == <<"/", "/", " ", "=", "=", "U", "s", "e", "r", "S", "c", "r", "i", "p", "t", "=", "=">>
s_closing == <<"/", "/", " ", "=", "=", "/", "U", "s", "e", "r", "S", "c", "r", "i", "p", "t", "=", "=">>
s_directive == <<"/", "/", " ", "@">>

\* What \s matches and str.strip() strips, of the characters of the model.
Whitespace == {" ", "\t"}

\* The least and the greatest element of a non-empty set of numbers.
Min(S) == CHOOSE i \in S : \A j \in S : i <= j
Max(S) == CHOOSE i \in S : \A j \in S : j <= i

\* str.strip()
Strip(s) ==
    LET inked == { i \in 1..Len(s) : s[i] \notin Whitespace }
    IN  IF inked = {} THEN <<>> ELSE SubSeq(s, Min(inked), Max(inked))

\* str.find(sub), counted from 1: where sub first occurs in s, 0 if nowhere.
Find(s, sub) ==
    LET at == { i \in 1..(Len(s) - Len(sub) + 1) : SubSeq(s, i, i + Len(sub) - 1) = sub }
    IN  IF at = {} THEN 0 ELSE Min(at)

\* How many characters from s[from] on are (blank = TRUE) or are not
\* (blank = FALSE) whitespace: what a greedy \s+ or \S+ takes at first.
Run(s, from, blank) ==
    Min({ n \in 0..(Len(s) - from + 1) :
            \/ from + n > Len(s)
            \/ (s[from + n] \in Whitespace) /= blank })

\* METADATA_LINE_PATTERN.match(line) for '// @(\S+)\s+(.+)': "// @", then
\* the run of non-blanks (the key; \S+ cannot give a character back, a
\* non-blank would follow it), then the run of blanks, which gives its last
\* one back when nothing follows it, then the rest of the line (the value).
METADATA_LINE_PATTERN(line) ==
    IF ~StartsWith(line, s_directive) THEN OtherLine
    ELSE LET at == Len(s_directive) + 1
             klen == Run(line, at, FALSE)
             blanks == Run(line, at + klen, TRUE)
             rest == at + klen + blanks
         IN  IF klen = 0 \/ blanks = 0 THEN OtherLine
             ELSE IF rest <= Len(line)
                  THEN DirectiveLine(SubSeq(line, at, at + klen - 1),
                                     SubSeq(line, rest, Len(line)))
             ELSE IF blanks >= 2
                  THEN DirectiveLine(SubSeq(line, at, at + klen - 1),
                                     <<line[Len(line)]>>)
             ELSE OtherLine

\* _parse_metadata_lines as it would be if it put each new value first.
RECURSIVE ParseLines_prepend(_, _)
ParseLines_prepend(lines, metadata) ==
    IF lines = <<>> THEN metadata
    ELSE The({ ParseLines_prepend(Tail(lines),
                          IF ~line.match THEN metadata
                          ELSE IF line.key \in DOMAIN metadata
                               THEN [metadata EXCEPT ![line.key] = <<line.value>> \o @]
                               ELSE metadata @@ (line.key :> <<line.value>>)) :
               line \in {METADATA_LINE_PATTERN(Strip(Head(lines)))} })

\* UserScriptParser._parse_metadata_lines: one pass over the block's lines.
RECURSIVE ParseLines(_, _)
ParseLines(lines, metadata) ==
    IF lines = <<>> THEN metadata
    ELSE The({ ParseLines(Tail(lines),
                          IF ~line.match THEN metadata
                          ELSE IF line.key \in DOMAIN metadata
                               THEN [metadata EXCEPT ![line.key] = Append(@, line.value)]
                               ELSE metadata @@ (line.key :> <<line.value>>)) :
               line \in {METADATA_LINE_PATTERN(Strip(Head(lines)))} })

\* block is block.split('\n'): the lines of the block.
_parse_metadata_lines(block) == ParseLines(block, EmptyDict)

\* METADATA_BLOCK_PATTERN.search(content) for
\* '// ==UserScript==\n(.*?)// ==/UserScript==' with DOTALL, content held as
\* its lines: the first line that ends with the opening marker and has a
\* closing marker somewhere after it, and what lies between that line and
\* the first closing marker, as lines: found, and group(1).split('\n').
METADATA_BLOCK_PATTERN(content) ==
    LET opens == { i \in 1..(Len(content) - 1) :
                     /\ EndsWith(content[i], s_opening)
                     /\ \E j \in (i + 1)..Len(content) : Find(content[j], s_closing) > 0 }
    IN  IF opens = {} THEN [found |-> FALSE, block |-> <<>>]
        ELSE LET i == Min(opens)
                 j == Min({ k \in (i + 1)..Len(content) : Find(content[k], s_closing) > 0 })
             IN  [ found |-> TRUE,
                   block |-> SubSeq(content, i + 1, j - 1)
                             \o << SubSeq(content[j], 1, Find(content[j], s_closing) - 1) >> ]

\* UserScriptParser._extract_metadata_block: group(1), or ValueError.
_extract_metadata_block(content) ==
    LET m == METADATA_BLOCK_PATTERN(content)
    IN  [raised |-> ~m.found, block |-> m.block]

\* UserScriptParser._get_first_value
_get_first_value(metadata, key, default) ==
    LET values == IF key \in DOMAIN metadata THEN metadata[key] ELSE <<>>
    IN  IF values /= <<>> THEN values[1] ELSE default

\* UserScriptParser._get_all_values
_get_all_values(metadata, key, default) ==
    IF key \in DOMAIN metadata THEN metadata[key] ELSE default

\* _parse_run_at as it would be if it looked for "runAt" first.
_parse_run_at_alternate_first(metadata) ==
    IF k_runAt \in DOMAIN metadata THEN metadata[k_runAt][1]
    ELSE IF k_run_at \in DOMAIN metadata THEN metadata[k_run_at][1]
    ELSE s_document_end

\* UserScriptParser._parse_run_at
_parse_run_at(metadata) ==
    IF k_run_at \in DOMAIN metadata THEN metadata[k_run_at][1]
    ELSE IF k_runAt \in DOMAIN metadata THEN metadata[k_runAt][1]
    ELSE s_document_end

\* UserScriptParser.parse, from the lines of the metadata block on.
ParseMetadata(block) ==
    LET raw_metadata == _parse_metadata_lines(block)
    IN  [ name              |-> _get_first_value(raw_metadata, k_name, s_Unnamed_Script),
          namespace         |-> _get_first_value(raw_metadata, k_namespace, <<>>),
          version           |-> _get_first_value(raw_metadata, k_version, s_v100),
          description       |-> _get_first_value(raw_metadata, k_description, <<>>),
          author            |-> _get_first_value(raw_metadata, k_author, <<>>),
          license           |-> _get_first_value(raw_metadata, k_license, s_MIT),
          match_patterns    |-> _get_all_values(raw_metadata, k_match, <<>>),
          grant_permissions |-> _get_all_values(raw_metadata, k_grant, <<s_none>>),
          require_urls      |-> _get_all_values(raw_metadata, k_require, <<>>),
          resource_urls     |-> _get_all_values(raw_metadata, k_resource, <<>>),
          connect_urls      |-> _get_all_values(raw_metadata, k_connect, <<>>),
          run_at            |-> _parse_run_at(raw_metadata),
          icon_url          |-> _get_first_value(raw_metadata, k_icon, None),
          update_url        |-> _get_first_value(raw_metadata, k_updateURL, None),
          download_url      |-> _get_first_value(raw_metadata, k_downloadURL, None),
          support_url       |-> _get_first_value(raw_metadata, k_supportURL, None),
          homepage_url      |-> _get_first_value(raw_metadata, k_homepage, None),
          raw_metadata      |-> raw_metadata ]

\* str.strip() of a text held as lines: the empty lines at both ends go.
RECURSIVE StripLeft(_)
StripLeft(text) ==
    IF Len(text) > 1 /\ Head(text) = "" THEN StripLeft(Tail(text)) ELSE text

RECURSIVE StripRight(_)
StripRight(text) ==
    IF Len(text) > 1 /\ text[Len(text)] = ""
    THEN StripRight(SubSeq(text, 1, Len(text) - 1))
    ELSE text

\* a + b for two texts held as lines: the last line of a runs on into the
\* first line of b.
ConcatText(a, b) ==
    SubSeq(a, 1, Len(a) - 1) \o <<a[Len(a)] \o b[1]>> \o Tail(b)

\* UserScriptParser.extract_code_body: METADATA_BLOCK_PATTERN.sub('', content)
\* leaves the text before the block followed by the text after it; strip().
extract_code_body(before, after) == StripRight(StripLeft(ConcatText(before, after)))

(***************************************************************************)
(* src/converter.py                                                        *)
(***************************************************************************)
snippet_GM_addStyle ==
    << "    // GM_addStyle polyfill",
       "    if (typeof GM_addStyle === 'undefined') {",
       "        window.GM_addStyle = function(css) {",
       "            const style = document.createElement('style');",
       "            style.textContent = css;",
       "            document.head.appendChild(style);",
       "            return style;",
       "        };",
       "    }" >>

snippet_GMdot_setValue ==
    << "    // GM.setValue polyfill",
       "    if (typeof GM === 'undefined' || !GM.setValue) {",
       "        window.GM = window.GM || {};",
       "        GM.setValue = async function(key, value) {",
       "            return new Promise((resolve) => {",
       "                chrome.storage.local.set({[key]: value}, () => resolve());",
       "            });",
       "        };",
       "    }" >>

snippet_GMdot_getValue ==
    << "    // GM.getValue polyfill",
       "    if (typeof GM === 'undefined' || !GM.getValue) {",
       "        window.GM = window.GM || {};",
       "        GM.getValue = async function(key, defaultValue) {",
       "            return new Promise((resolve) => {",
       "                chrome.storage.local.get([key], (result) => {",
       "                    resolve(key in result ? result[key] : defaultValue);",
       "                });",
       "            });",
       "        };",
       "    }" >>

snippet_GMdot_deleteValue ==
    << "    // GM.deleteValue polyfill",
       "    if (typeof GM === 'undefined' || !GM.deleteValue) {",
       "        window.GM = window.GM || {};",
       "        GM.deleteValue = async function(key) {",
       "            return new Promise((resolve) => {",
       "                chrome.storage.local.remove([key], () => resolve());",
       "            });",
       "        };",
       "    }" >>

snippet_GMdot_listValues ==
    << "    // GM.listValues polyfill",
       "    if (typeof GM === 'undefined' || !GM.listValues) {",
       "        window.GM = window.GM || {};",
       "        GM.listValues = async function() {",
       "            return new Promise((resolve) => {",
       "                chrome.storage.local.get(null, (items) => {",
       "                    resolve(Object.keys(items));",
       "                });",
       "            });",
       "        };",
       "    }" >>

snippet_GMdot_xmlHttpRequest ==
    << "    // GM.xmlHttpRequest polyfill",
       "    if (typeof GM === 'undefined' || !GM.xmlHttpRequest) {",
       "        window.GM = window.GM || {};",
       "        GM.xmlHttpRequest = function(details) {",
       "            fetch(details.url, {",
       "                method: details.method || 'GET',",
       "                headers: details.headers || {},",
       "                body: details.data",
       "            }).then(response => response.text()).then(text => {",
       "                if (details.onload) {",
       "                    details.onload({",
       "                        status: 200,",
       "                        statusText: 'OK',",
       "                        responseText: text,",
       "                        response: text",
       "                    });",
       "                }",
       "            }).catch(error => {",
       "                if (details.onerror) {",
       "                    details.onerror(error);",
       "                }",
       "            });",
       "        };",
       "    }" >>

snippet_GMdot_notification ==
    << "    // GM.notification polyfill",
       "    if (typeof GM === 'undefined' || !GM.notification) {",
       "        window.GM = window.GM || {};",
       "        GM.notification = function(options) {",
       "            chrome.notifications.create({",
       "                type: 'basic',",
       "                iconUrl: options.image || '',",
       "                title: options.title || '',",
       "                message: options.text || ''",
       "            });",
       "        };",
       "    }" >>

snippet_GMdot_setClipboard ==
    << "    // GM.setClipboard polyfill",
       "    if (typeof GM === 'undefined' || !GM.setClipboard) {",
       "        window.GM = window.GM || {};",
       "        GM.setClipboard = function(text) {",
       "            const textarea = document.createElement('textarea');",
       "            textarea.value = text;",
       "            document.body.appendChild(textarea);",
       "            textarea.select();",
       "            document.execCommand('copy');",
       "            document.body.removeChild(textarea);",
       "        };",
       "    }" >>

snippet_GMdot_openInTab ==
    << "    // GM.openInTab polyfill",
       "    if (typeof GM === 'undefined' || !GM.openInTab) {",
       "        window.GM = window.GM || {};",
       "        GM.openInTab = function(url, options) {",
       "            const background = options && options.background;",
       "            chrome.tabs.create({ url: url, active: !background });",
       "        };",
       "    }" >>

snippet_GMdot_download ==
    << "    // GM.download polyfill",
       "    if (typeof GM === 'undefined' || !GM.download) {",
       "        window.GM = window.GM || {};",
       "        GM.download = function(details) {",
       "            chrome.downloads.download({",
       "                url: details.url,",
       "                filename: details.name,",
       "                saveAs: details.saveAs || false",
       "            }, details.onload || (() => {}));",
       "        };",
       "    }" >>

\* The dict of CodeConverter._get_api_polyfill.
polyfills ==
    (s_GM_addStyle :> snippet_GM_addStyle)
    @@ (s_GMdot_setValue :> snippet_GMdot_setValue)
    @@ (s_GMdot_getValue :> snippet_GMdot_getValue)
    @@ (s_GMdot_deleteValue :> snippet_GMdot_deleteValue)
    @@ (s_GMdot_listValues :> snippet_GMdot_listValues)
    @@ (s_GMdot_xmlHttpRequest :> snippet_GMdot_xmlHttpRequest)
    @@ (s_GMdot_notification :> snippet_GMdot_notification)
    @@ (s_GMdot_setClipboard :> snippet_GMdot_setClipboard)
    @@ (s_GMdot_openInTab :> snippet_GMdot_openInTab)
    @@ (s_GMdot_download :> snippet_GMdot_download)

\* CodeConverter._get_api_polyfill: polyfills.get(api, '')
_get_api_polyfill(api) ==
    IF api \in DOMAIN polyfills THEN polyfills[api] ELSE <<"">>

\* The snippets the loop of _generate_polyfill appends, in order.
RECURSIVE AppendPolyfills(_)
AppendPolyfills(needed_apis) ==
    IF needed_apis = <<>> THEN <<>>
    ELSE LET api_polyfill == _get_api_polyfill(Head(needed_apis))
         IN  (IF api_polyfill /= <<"">> THEN <<api_polyfill>> ELSE <<>>)
             \o AppendPolyfills(Tail(needed_apis))

PolyfillHeader == "// ===== GM API Polyfill for Browser Extensions ====="
WrapperOpen == "(function() {"
WrapperStrict == "    \"use strict\";"
WrapperClose == "})();"

\* CodeConverter._generate_polyfill
_generate_polyfill(md) ==
    LET needed_apis == get_required_apis(md)
    IN  IF needed_apis = <<>> THEN <<"">>
        ELSE JoinLines(<< <<PolyfillHeader>>, <<WrapperOpen>>, <<WrapperStrict>>, <<"">> >>
                       \o AppendPolyfills(needed_apis)
                       \o << <<WrapperClose>> >>, 0)

\* convert as it would be if it appended the polyfill without testing
\* uses_gm_api() and the polyfill's emptiness.
convert_unguarded(md, code_body) ==
    JoinLines(<<_generate_polyfill(md), code_body>>, 1)

\* CodeConverter.convert
convert(md, code_body) ==
    LET polyfill == _generate_polyfill(md)
        parts == (IF uses_gm_api(md) /\ polyfill /= <<"">> THEN <<polyfill>> ELSE <<>>)
                 \o <<code_body>>
    IN  JoinLines(parts, 1)

(***************************************************************************)
(* src/validator.py                                                        *)
(***************************************************************************)
DescriptionLimit == 132
NameLimit == 75
ScreenshotLimit == 5

AllDigits(s) == s /= <<>> /\ \A i \in 1..Len(s) : s[i] \in Digits

\* re.match(r"^\d+(\.\d+){0,3}$", s): one to four runs of digits with a dot
\* between two runs.
MatchesVersionPattern(s) ==
    LET parts == Split(s, ".")
    IN  /\ Len(parts) <= 4
        /\ \A i \in 1..Len(parts) : AllDigits(parts[i])

\* validate_store_readiness as it would be with >= for > in its
\* description-length test.
validate_store_readiness_off_by_one(md) ==
    IF md.description = <<>> \/ md.description = s_Unnamed_Script
    THEN [raised |-> "description_required", warnings |-> {}]
    ELSE IF Len(md.description) >= DescriptionLimit
    THEN [raised |-> "description_too_long", warnings |-> {}]
    ELSE IF Len(md.name) > NameLimit
    THEN [raised |-> "name_too_long", warnings |-> {}]
    ELSE [raised |-> "none", warnings |-> {}]

\* validate_store_readiness: what it raises ("none": it returns) and the
\* warnings it logged before that.
validate_store_readiness(md) ==
    IF md.description = <<>> \/ md.description = s_Unnamed_Script
    THEN [raised |-> "description_required", warnings |-> {}]
    ELSE IF Len(md.description) > DescriptionLimit
    THEN [raised |-> "description_too_long", warnings |-> {}]
    ELSE LET w3 == IF s_all_urls \in Range(md.match_patterns)
                   THEN {"all_urls"} ELSE {}
         IN  IF Len(md.name) > NameLimit
             THEN [raised |-> "name_too_long", warnings |-> w3]
             ELSE [raised |-> "none",
                   warnings |-> w3 \cup
                       (IF ~MatchesVersionPattern(LStrip(md.version, s_vV))
                        THEN {"version_format"} ELSE {})]

\* Path.glob("*" + suffix) in a directory holding the files `names`.
Glob(names, suffix) == {n \in names : EndsWith(n, suffix)}

\* validate_store_assets of src/validator.py, the one build.py imports.
\* assets: whether store_assets/ exists and the names of the files in it.
validate_store_assets(assets) ==
    LET screenshot_count == Cardinality(Glob(assets.files, s_dot_png))
                            + Cardinality(Glob(assets.files, s_dot_jpg))
    IN  IF ~assets.exists
        THEN [raised |-> "no_store_assets", warnings |-> {}, screenshot_count |-> 0]
        ELSE IF s_icon_png \notin assets.files
        THEN [raised |-> "no_icon", warnings |-> {}, screenshot_count |-> 0]
        ELSE IF screenshot_count = 0
        THEN [raised |-> "no_screenshots", warnings |-> {}, screenshot_count |-> 0]
        ELSE [raised |-> "none",
              warnings |-> IF screenshot_count > ScreenshotLimit
                           THEN {"too_many_screenshots"} ELSE {},
              screenshot_count |-> screenshot_count]

(***************************************************************************)
(* src/manifest.py                                                         *)
(***************************************************************************)
\* ManifestV3Generator.GM_API_PERMISSIONS
GM_API_PERMISSIONS ==
    (s_GM_xmlHttpRequest :> <<s_all_urls>>)
    @@ (s_GM_addStyle :> <<>>)
    @@ (s_GM_setValue :> <<s_storage>>)
    @@ (s_GM_getValue :> <<s_storage>>)
    @@ (s_GM_deleteValue :> <<s_storage>>)
    @@ (s_GM_listValues :> <<s_storage>>)
    @@ (s_GM_notification :> <<s_notifications>>)
    @@ (s_GM_setClipboard :> <<s_clipboardWrite>>)
    @@ (s_GM_openInTab :> <<s_tabs>>)
    @@ (s_GM_download :> <<s_downloads, s_all_urls>>)

\* _normalize_version as it would be if it padded to two components.
_normalize_version_short(md) ==
    LET version == LStrip(md.version, s_vV)
        parts == Split(version, ".")
    IN  IF Len(parts) < 2
        THEN version \o Repeat(s_dot_0, 2 - Len(parts))
        ELSE version

\* ManifestV3Generator._normalize_version
_normalize_version(md) ==
    LET version == LStrip(md.version, s_vV)
        parts == Split(version, ".")
    IN  IF Len(parts) < 3
        THEN version \o Repeat(s_dot_0, 3 - Len(parts))
        ELSE version

\* ManifestV3Generator._get_icons
_get_icons(has_icons) ==
    IF ~has_icons THEN None
    ELSE [ k \in {"16", "48", "128"} |->
             s_icons_slash \o (IF k = "16" THEN s_icon16_png
                               ELSE IF k = "48" THEN s_icon48_png
                               ELSE s_icon128_png) ]

\* The tokens the listed grants map to in GM_API_PERMISSIONS.
GrantTokens(md) ==
    UNION { Range(GM_API_PERMISSIONS[grant]) :
              grant \in { g \in Range(md.grant_permissions) :
                            g /= s_none /\ g \in DOMAIN GM_API_PERMISSIONS } }

\* ManifestV3Generator._get_permissions
_get_permissions(md) ==
    Sorted({ perm \in GrantTokens(md) :
               perm /= <<>> /\ ~StartsWith(perm, s_all_urls) })

\* _get_host_permissions as it would be if it kept the hosts in a list,
\* in the order met, instead of a sorted set.
_get_host_permissions_unsorted(md) ==
    (IF \E perm \in GrantTokens(md) : perm /= <<>> /\ StartsWith(perm, s_all_urls)
     THEN <<s_all_urls>> ELSE <<>>) \o md.connect_urls

\* ManifestV3Generator._get_host_permissions
_get_host_permissions(md) ==
    LET hosts == IF \E perm \in GrantTokens(md) :
                        perm /= <<>> /\ StartsWith(perm, s_all_urls)
                 THEN {s_all_urls} ELSE {}
    IN  Sorted(hosts \cup Range(md.connect_urls))

\* ManifestV3Generator._get_match_patterns
_get_match_patterns(md) ==
    IF md.match_patterns /= <<>> THEN md.match_patterns ELSE <<s_all_urls>>

\* ManifestV3Generator._get_run_at
_get_run_at(md) ==
    IF md.run_at = s_document_start THEN s_document_start_
    ELSE IF md.run_at = s_document_end THEN s_document_end_
    ELSE IF md.run_at = s_document_idle THEN s_document_idle_
    ELSE s_document_end_

\* ManifestV3Generator._get_js_files
_get_js_files(lib_files) ==
    [i \in 1..Len(lib_files) |-> s_lib_slash \o lib_files[i]] \o <<s_content_js>>

\* A dict entry that is set only under a condition.
Entry(cond, key, value) == IF cond THEN key :> value ELSE EmptyDict

\* generate as it would be if it set permissions and host_permissions
\* without testing them.
generate_all_keys(md, lib_files, has_icons) ==
    [ manifest_version |-> 3,
      name |-> md.name,
      version |-> _normalize_version(md),
      description |-> md.description,
      content_scripts |-> << [ matches |-> _get_match_patterns(md),
                               js |-> _get_js_files(lib_files),
                               run_at |-> _get_run_at(md) ] >>,
      permissions |-> _get_permissions(md),
      host_permissions |-> _get_host_permissions(md) ]
    @@ Entry(has_icons, "icons", _get_icons(has_icons))
    @@ Entry(Truthy(md.homepage_url), "homepage_url", md.homepage_url)

\* ManifestV3Generator.generate
generate(md, lib_files, has_icons) ==
    LET permissions == _get_permissions(md)
        host_permissions == _get_host_permissions(md)
        icons == _get_icons(has_icons)
    IN  [ manifest_version |-> 3,
          name |-> md.name,
          version |-> _normalize_version(md),
          description |-> md.description,
          content_scripts |-> << [ matches |-> _get_match_patterns(md),
                                   js |-> _get_js_files(lib_files),
                                   run_at |-> _get_run_at(md) ] >> ]
        @@ Entry(permissions /= <<>>, "permissions", permissions)
        @@ Entry(host_permissions /= <<>>, "host_permissions", host_permissions)
        @@ Entry(icons /= None, "icons", icons)
        @@ Entry(Truthy(md.homepage_url), "homepage_url", md.homepage_url)

(***************************************************************************)
(* src/fetcher.py                                                          *)
(***************************************************************************)
\* The first index from `from` on where s holds a character of chars, or
\* Len(s) + 1 when there is none: min over str.find of each character.
FindAny(s, chars, from) ==
    IF \E i \in from..Len(s) : s[i] \in chars
    THEN CHOOSE i \in from..Len(s) :
             s[i] \in chars /\ \A j \in from..(i - 1) : s[j] \notin chars
    ELSE Len(s) + 1

\* The last index where s holds c, or 0: str.rfind(c) + 1.
RFind(s, c) ==
    IF \E i \in 1..Len(s) : s[i] = c
    THEN CHOOSE i \in 1..Len(s) : s[i] = c /\ \A j \in (i + 1)..Len(s) : s[j] /= c
    ELSE 0

\* urlparse(url).path of a "<scheme>://<netloc><path>;<params>?<query>#<fragment>"
\* URL: what follows the netloc, up to the fragment, the query and the
\* parameters of the last path segment.
UrlPath(url) ==
    LET colon == FindAny(url, {":"}, 1)
        rest == SubSeq(url, colon + 3, Len(url))
        tail == SubSeq(rest, FindAny(rest, {"/", "?", "#"}, 1), Len(rest))
        nofrag == SubSeq(tail, 1, FindAny(tail, {"#"}, 1) - 1)
        noquery == SubSeq(nofrag, 1, FindAny(nofrag, {"?"}, 1) - 1)
    IN  SubSeq(noquery, 1, FindAny(noquery, {";"}, RFind(noquery, "/") + 1) - 1)

\* DependencyFetcher.fetch lines 55-60: the local file name of a URL.
AddJs(filename) ==
    IF ~EndsWith(filename, s_dot_js) /\ "." \notin Range(filename)
    THEN filename \o s_dot_js
    ELSE filename

FetchFilename(url) ==
    The({ AddJs(segments[Len(segments)]) : segments \in {Split(UrlPath(url), "/")} })

\* What session.get and the write that follows it come to for one URL.
FetchOutcomes == {"ok", "request_error", "os_error"}

\* The content of a file this run downloads from url.
Downloaded(url) == [kind |-> "download", url |-> url]

\* DependencyFetcher.fetch: lib is the lib directory (file name -> content).
\* ret is the returned file name or None; raised: an exception other than
\* RequestException left fetch.
fetch(url, outcome, lib) ==
    LET filename == FetchFilename(url)
    IN  IF filename \in DOMAIN lib
        THEN [ret |-> filename, raised |-> FALSE, lib |-> lib]
        ELSE IF outcome = "ok"
        THEN [ret |-> filename, raised |-> FALSE,
              lib |-> lib @@ (filename :> Downloaded(url))]
        ELSE IF outcome = "request_error"
        THEN [ret |-> None, raised |-> FALSE, lib |-> lib]
        ELSE [ret |-> None, raised |-> TRUE, lib |-> lib]

\* The loop of DependencyFetcher.fetch_all over urls[i..].
RECURSIVE FetchLoop(_, _, _, _, _)
FetchLoop(urls, outcomes, i, downloaded, lib) ==
    IF i > Len(urls) THEN [downloaded |-> downloaded, lib |-> lib]
    ELSE The({ FetchLoop(urls, outcomes, i + 1,
                         IF ~r.raised /\ Truthy(r.ret)
                         THEN Append(downloaded, r.ret) ELSE downloaded,
                         r.lib) :
               r \in {fetch(urls[i], outcomes[i], lib)} })

\* DependencyFetcher.fetch_all.  The warning it logs first formats
\* {(y if len(urls) == 1 else 'ies')}: y is no name of the module, so with
\* exactly one URL the call raises NameError before anything is fetched.
fetch_all(urls, outcomes, lib) ==
    IF urls = <<>>
    THEN [raised |-> FALSE, created |-> FALSE, downloaded |-> <<>>, lib |-> lib]
    ELSE IF Len(urls) = 1
    THEN [raised |-> TRUE, created |-> FALSE, downloaded |-> <<>>, lib |-> lib]
    ELSE LET r == FetchLoop(urls, outcomes, 1, <<>>, lib)
         IN  [raised |-> FALSE, created |-> TRUE,
              downloaded |-> r.downloaded, lib |-> r.lib]

(***************************************************************************)
(* The extension directory: whether it exists, the directories under it   *)
(* and the files under it with their contents.  A path is the sequence of *)
(* its names below the extension directory.                               *)
(***************************************************************************)
NoDir == [exists |-> FALSE, dirs |-> {}, files |-> EmptyDict]

Under(p, q) == Len(q) > Len(p) /\ SubSeq(q, 1, Len(p)) = p

Without(f, S) == [p \in (DOMAIN f) \ S |-> f[p]]

\* Path.__lt__: by parts, a parent before what is under it.
RECURSIVE PathLess(_, _)
PathLess(p, q) ==
    IF q = <<>> THEN FALSE
    ELSE IF p = <<>> THEN TRUE
    ELSE IF Head(p) = Head(q) THEN PathLess(Tail(p), Tail(q))
    ELSE StrLess(Head(p), Head(q))

\* sorted(paths, reverse=True)
RECURSIVE SortedReverse(_)
SortedReverse(S) ==
    IF S = {} THEN <<>>
    ELSE LET m == CHOOSE x \in S : \A y \in S \ {x} : PathLess(y, x)
         IN  <<m>> \o SortedReverse(S \ {m})

\* build.py lines 100-102: rmdir of every directory in turn; rmdir of a
\* directory that still holds something raises OSError.
RECURSIVE RmdirEach(_, _)
RmdirEach(order, d) ==
    IF order = <<>> THEN [raised |-> FALSE, dir |-> d]
    ELSE LET sub == Head(order)
         IN  IF \E q \in d.dirs \cup DOMAIN d.files : Under(sub, q)
             THEN [raised |-> TRUE, dir |-> d]
             ELSE RmdirEach(Tail(order), [d EXCEPT !.dirs = @ \ {sub}])

\* build.py lines 94-102: one item of output_dir.iterdir().
CleanItem(item, d) ==
    IF item \in DOMAIN d.files
    THEN [raised |-> FALSE, dir |-> [d EXCEPT !.files = Without(@, {item})]]
    ELSE IF item \in d.dirs
    THEN LET d1 == [d EXCEPT !.files =
                        Without(@, {q \in DOMAIN d.files : Under(item, q)})]
         IN  RmdirEach(SortedReverse(d1.dirs), d1)
    ELSE [raised |-> FALSE, dir |-> d]

\* build.py lines 93-102: the items in the order iterdir() listed them.
RECURSIVE CleanItems(_, _)
CleanItems(order, d) ==
    IF order = <<>> THEN [raised |-> FALSE, dir |-> d]
    ELSE The({ IF r.raised THEN r ELSE CleanItems(Tail(order), r.dir) :
               r \in {CleanItem(Head(order), d)} })

\* What iterdir() lists: the entries directly in the directory.
TopLevel(d) == {p \in d.dirs \cup DOMAIN d.files : Len(p) = 1}

\* The orders a set can be listed in.
Orders(S) ==
    {s \in [1..Cardinality(S) -> S] : \A i, j \in DOMAIN s : s[i] = s[j] => i = j}

\* Path.write_text, Path.write_bytes: the file at path p now holds content.
WriteFile(d, p, content) ==
    [d EXCEPT !.files = (p :> content) @@ @]

\* The files of directory name: file name -> content.
FilesIn(d, name) ==
    [f \in {p[2] : p \in {q \in DOMAIN d.files : Len(q) = 2 /\ q[1] = name}}
       |-> d.files[<<name, f>>]]

(***************************************************************************)
(* utils/image.py                                                          *)
(***************************************************************************)
IconOutcomes == {"ok", "no_pil", "bad_image"}

IconNames == {s_icon16_png, s_icon48_png, s_icon128_png}

\* generate_icon_sizes(icon_source, icons_dir): it returns True or raises.
\* outcome: whether PIL was imported and whether it can read the source.
generate_icon_sizes(source_exists, outcome, d) ==
    IF outcome = "no_pil" \/ ~source_exists \/ outcome = "bad_image"
    THEN [raised |-> TRUE, dir |-> d]
    ELSE [raised |-> FALSE,
          dir |-> [d EXCEPT
                     !.dirs = @ \cup {<<s_icons>>},
                     !.files = [p \in {<<s_icons, n>> : n \in IconNames}
                                  |-> [kind |-> "icon", name |-> p[2]]] @@ @]]

(***************************************************************************)
(* src/packager.py                                                         *)
(*                                                                         *)
(* store_assets/upload_config.json is [exists, valid, keys, zip_filename,  *)
(* upload_urls]: whether the file is there, whether it is JSON, and of the *)
(* object it holds the keys and the values of the two keys read here.  A   *)
(* loaded config is [is_none, keys, zip_filename, upload_urls].            *)
(***************************************************************************)
s_zip_filename == "zip_filename"
s_upload_urls == "upload_urls"
s_dot_zip == <<".", "z", "i", "p">>
s_dot_user_js == <<".", "u", "s", "e", "r", ".", "j", "s">>

NoConfig == [is_none |-> TRUE, keys |-> {}, zip_filename |-> <<>>, upload_urls |-> <<>>]

\* load_upload_config: None when the file is missing or is not JSON.
load_upload_config(file) ==
    IF ~file.exists \/ ~file.valid THEN NoConfig
    ELSE [ is_none |-> FALSE, keys |-> file.keys,
           zip_filename |-> file.zip_filename, upload_urls |-> file.upload_urls ]

\* str.replace(old, new): every occurrence of old, from the left.
RECURSIVE Replace(_, _, _)
Replace(s, old, new) ==
    The({ IF i = 0 THEN s
          ELSE SubSeq(s, 1, i - 1) \o new
               \o Replace(SubSeq(s, i + Len(old), Len(s)), old, new) :
          i \in {Find(s, old)} })

\* What writing the archive and copying it to ~/Downloads come to: both
\* work, ZipFile raises, or the archive is written and the copy raises.
ZipOutcomes == {"ok", "zip_failed", "copy_failed"}

\* package_extension: the path it returns (None on failure) and the
\* archive it leaves in the script directory (None: no archive).
package_extension(script_filename, config, outcome) ==
    LET base_name == Replace(Replace(script_filename, s_dot_js, <<>>), s_dot_user_js, <<>>)
        zip_name == IF ~config.is_none /\ config.keys /= {} /\ s_zip_filename \in config.keys
                    THEN config.zip_filename
                    ELSE base_name
        zip_filename == zip_name \o s_dot_zip
    IN  [ zip_path |-> IF outcome = "ok" THEN zip_filename ELSE None,
          archive |-> IF outcome = "zip_failed" THEN None ELSE zip_filename ]

\* open_upload_pages: the URLs it opens, or lists under WSL.
open_upload_pages(config) == config.upload_urls

(***************************************************************************)
(* build.py: build_script, one action per step.                            *)
(*                                                                         *)
(* What the run is given and does not change:                              *)
(*   script       the script directory's *.js files: how many hold both    *)
(*                markers (candidates), and of the one found its name      *)
(*                (filename), its lines from the opening marker's to the   *)
(*                closing marker's (content), and the text before and      *)
(*                after the metadata block;                                *)
(*   store_assets the store_assets directory;                              *)
(*   env          the clean and package flags, the extension directory as  *)
(*                the run finds it (old), upload_config.json, and the      *)
(*                outcome of each download, of icon generation and of      *)
(*                writing the archive.                                     *)
(* What the run changes:                                                   *)
(*   pc           the step build_script is at;                             *)
(*   dir          the extension directory;                                 *)
(*   metadata, lib_files, manifest, converted_code                         *)
(*                the locals of build_script;                              *)
(*   warnings     the warnings logged so far;                              *)
(*   error        what the except clause caught ("none": nothing);         *)
(*   returned     "True" once build_script returned True ("none" before;   *)
(*                pc = "failed" is its return of False);                   *)
(*   zip_file     the archive in the script directory (None: none);        *)
(*   opened       the upload pages opened;                                 *)
(*   exit_code    <<>> while the process runs, then <<0>> or <<1>>.        *)
(***************************************************************************)
VARIABLES pc, script, store_assets, env, dir, metadata, lib_files, manifest,
          converted_code, warnings, error, returned, zip_file, opened, exit_code

vars == <<pc, script, store_assets, env, dir, metadata, lib_files, manifest,
          converted_code, warnings, error, returned, zip_file, opened, exit_code>>

\* What only packaging and main change.
packaging == <<returned, zip_file, opened, exit_code>>

inputs == <<script, store_assets, env>>

\* The except clause of build_script: log, return False.
Fail(what) ==
    /\ pc' = "failed"
    /\ error' = what

\* build.py line 78: find_script_file
FindScript ==
    /\ pc = "start"
    /\ IF script.candidates = 0 THEN Fail("no_script")
       ELSE IF script.candidates > 1 THEN Fail("multiple_scripts")
       ELSE pc' = "found" /\ UNCHANGED error
    /\ UNCHANGED <<inputs, packaging, dir, metadata, lib_files, manifest, converted_code, warnings>>

\* build.py lines 82-84: UserScriptParser.parse
Parse ==
    /\ pc = "found"
    /\ \E r \in {_extract_metadata_block(script.content)} :
           IF r.raised
           THEN Fail("no_metadata_block") /\ UNCHANGED metadata
           ELSE /\ metadata' = ParseMetadata(r.block)
                /\ pc' = "parsed"
                /\ UNCHANGED error
    /\ UNCHANGED <<inputs, packaging, dir, lib_files, manifest, converted_code, warnings>>

\* The validation step as it would be if the output directory were made
\* before it.
ValidateReadiness_after_mkdir ==
    /\ pc = "parsed"
    /\ \E r \in {validate_store_readiness(metadata)} :
           /\ warnings' = warnings \cup r.warnings
           /\ IF r.raised /= "none" THEN Fail(r.raised)
              ELSE pc' = "validated" /\ UNCHANGED error
    /\ dir' = [dir EXCEPT !.exists = TRUE]
    /\ UNCHANGED <<inputs, packaging, metadata, lib_files, manifest, converted_code>>

\* build.py line 87: validate_store_readiness
ValidateReadiness ==
    /\ pc = "parsed"
    /\ \E r \in {validate_store_readiness(metadata)} :
           /\ warnings' = warnings \cup r.warnings
           /\ IF r.raised /= "none" THEN Fail(r.raised)
              ELSE pc' = "validated" /\ UNCHANGED error
    /\ UNCHANGED <<inputs, packaging, dir, metadata, lib_files, manifest, converted_code>>

\* build.py lines 90-105: clean the output directory, then mkdir.
PrepareOutputDir ==
    /\ pc = "validated"
    /\ IF env.clean /\ dir.exists
       THEN \E order \in Orders(TopLevel(dir)) :
            \E r \in {CleanItems(order, dir)} :
                    IF r.raised
                    THEN dir' = r.dir /\ Fail("clean_failed")
                    ELSE dir' = r.dir /\ pc' = "prepared" /\ UNCHANGED error
       ELSE /\ dir' = [dir EXCEPT !.exists = TRUE]
            /\ pc' = "prepared"
            /\ UNCHANGED error
    /\ UNCHANGED <<inputs, packaging, metadata, lib_files, manifest, converted_code, warnings>>

\* build.py lines 108-111: validate_store_assets
ValidateAssets ==
    /\ pc = "prepared"
    /\ \E r \in {validate_store_assets(store_assets)} :
           /\ warnings' = warnings \cup r.warnings
           /\ IF r.raised /= "none" THEN Fail(r.raised)
              ELSE pc' = "assets_ok" /\ UNCHANGED error
    /\ UNCHANGED <<inputs, packaging, dir, metadata, lib_files, manifest, converted_code>>

\* build.py lines 114-118: DependencyFetcher(lib_dir).fetch_all
FetchDependencies ==
    /\ pc = "assets_ok"
    /\ \E r \in {fetch_all(metadata.require_urls, env.net, FilesIn(dir, s_lib))} :
           IF r.raised
           THEN Fail("fetch_all_raised") /\ UNCHANGED <<dir, lib_files, warnings>>
           ELSE /\ lib_files' = r.downloaded
                /\ dir' = IF r.created
                          THEN [dir EXCEPT
                                  !.dirs = @ \cup {<<s_lib>>},
                                  !.files = [p \in {<<s_lib, f>> : f \in DOMAIN r.lib}
                                               |-> r.lib[p[2]]] @@ @]
                          ELSE dir
                /\ warnings' = IF r.created THEN warnings \cup {"remote_code"}
                               ELSE warnings
                /\ pc' = "fetched"
                /\ UNCHANGED error
    /\ UNCHANGED <<inputs, packaging, metadata, manifest, converted_code>>

\* build.py lines 120-124: ManifestV3Generator(..., has_icons=True), save
WriteManifest ==
    /\ pc = "fetched"
    /\ manifest' = generate(metadata, lib_files, TRUE)
    /\ dir' = WriteFile(dir, <<s_manifest_json>>,
                        [kind |-> "manifest", doc |-> manifest'])
    /\ pc' = "manifest_written"
    /\ UNCHANGED <<inputs, packaging, metadata, lib_files, converted_code, warnings, error>>

\* build.py lines 127-132: extract_code_body, CodeConverter.convert, save
WriteContent ==
    /\ pc = "manifest_written"
    /\ converted_code' = convert(metadata, extract_code_body(script.before, script.after))
    /\ dir' = WriteFile(dir, <<s_content_js>>,
                        [kind |-> "text", lines |-> converted_code'])
    /\ pc' = "content_written"
    /\ UNCHANGED <<inputs, packaging, metadata, lib_files, manifest, warnings, error>>

\* build.py lines 135-141: generate_icon_sizes
GenerateIcons ==
    /\ pc = "content_written"
    /\ \E r \in {generate_icon_sizes(s_icon_png \in store_assets.files, env.icon, dir)} :
           IF r.raised
           THEN Fail("icon_generation_failed") /\ UNCHANGED dir
           ELSE dir' = r.dir /\ pc' = "built" /\ UNCHANGED error
    /\ UNCHANGED <<inputs, packaging, metadata, lib_files, manifest, converted_code, warnings>>

\* build.py lines 144-170: load_upload_config, package_extension and
\* open_upload_pages when --package is given; return True.
PackageAndReturn ==
    /\ pc = "built"
    /\ returned = "none"
    /\ returned' = "True"
    /\ IF env.package
       THEN \E loaded \in {load_upload_config(env.upload_config)} :
            \E config \in {IF loaded.is_none \/ s_upload_urls \notin loaded.keys
                           THEN NoConfig ELSE loaded} :
            \E r \in {package_extension(script.filename, config, env.zip)} :
                /\ warnings' = warnings
                                \cup (IF loaded.is_none THEN {"no_upload_config"}
                                      ELSE IF s_upload_urls \notin loaded.keys
                                           THEN {"no_upload_urls"} ELSE {})
                /\ zip_file' = r.archive
                /\ opened' = IF r.zip_path /= None /\ ~config.is_none /\ config.keys /= {}
                              THEN open_upload_pages(config)
                              ELSE <<>>
       ELSE UNCHANGED <<warnings, zip_file, opened>>
    /\ UNCHANGED <<inputs, pc, dir, metadata, lib_files, manifest, converted_code,
                   error, exit_code>>

\* build.py lines 210-211: main, sys.exit(0 if success else 1)
Exit ==
    /\ exit_code = <<>>
    /\ pc = "failed" \/ returned /= "none"
    /\ exit_code' = IF pc /= "failed" /\ returned = "True" THEN <<0>> ELSE <<1>>
    /\ UNCHANGED <<inputs, pc, dir, metadata, lib_files, manifest, converted_code,
                   warnings, error, returned, zip_file, opened>>

Next ==
    \/ FindScript
    \/ Parse
    \/ ValidateReadiness
    \/ PrepareOutputDir
    \/ ValidateAssets
    \/ FetchDependencies
    \/ WriteManifest
    \/ WriteContent
    \/ GenerateIcons
    \/ PackageAndReturn
    \/ Exit

(***************************************************************************)
(* The runs the model starts from.  A scenario is one script directory,    *)
(* one command line and one environment; Base is the minimal script        *)
(*     // @name Foo / @version 1.0 / @description Bar / @grant none        *)
(* with an icon and one screenshot in store_assets and no earlier build.   *)
(* A directive the script does not hold is the empty list of its values.   *)
(***************************************************************************)
\* The lines "// @<key> <value>", one for each value.
Directives(key, values) ==
    [i \in 1..Len(values) |-> s_directive \o key \o <<" ">> \o values[i]]

s_foo_js == <<"f", "o", "o", ".", "j", "s">>
s_comment == <<"/", "/", " ", "a", " ", "c", "o", "m", "m", "e", "n", "t">>

NoUploadConfig ==
    [exists |-> FALSE, valid |-> FALSE, keys |-> {}, zip_filename |-> <<>>,
     upload_urls |-> <<>>]

Body == <<"", "", "(function() {", "    console.log('hi');", "})();", "">>

ScreenshotPng(i) == <<"s", Ascii[17 + i]>> \o s_dot_png
ScreenshotJpg(i) == <<"p", Ascii[17 + i]>> \o s_dot_jpg

\* store_assets/ with or without icon.png, and npng + njpg screenshots.
Assets(icon, npng, njpg) ==
    [ exists |-> TRUE,
      files |-> (IF icon THEN {s_icon_png} ELSE {})
                \cup {ScreenshotPng(i) : i \in 1..npng}
                \cup {ScreenshotJpg(i) : i \in 1..njpg} ]

NoAssets == [exists |-> FALSE, files |-> {}]

Old == [kind |-> "old"]

EmptyBuild == [exists |-> TRUE, dirs |-> {}, files |-> EmptyDict]

\* What an earlier build of a script without @require left.
PreviousBuild ==
    [ exists |-> TRUE,
      dirs |-> {<<s_icons>>},
      files |-> [p \in {<<s_manifest_json>>, <<s_content_js>>}
                       \cup {<<s_icons, n>> : n \in IconNames} |-> Old] ]

\* What an earlier build of a script with an @require left.
PreviousBuildWithLib ==
    [ exists |-> TRUE,
      dirs |-> {<<s_icons>>, <<s_lib>>},
      files |-> [p \in {<<s_manifest_json>>, <<s_content_js>>, <<s_lib, s_foo_bar_js>>}
                       \cup {<<s_icons, n>> : n \in IconNames} |-> Old] ]

OldDirs == {NoDir, EmptyBuild, PreviousBuild, PreviousBuildWithLib}

Base ==
    [ candidates |-> 1, filename |-> s_foo_js, opening |-> s_opening, head |-> <<>>,
      closing |-> s_closing,
      name |-> <<s_Foo>>, version |-> <<s_v10>>, description |-> <<s_Bar>>,
      matches |-> <<>>, grants |-> <<s_none>>, requires |-> <<>>, connects |-> <<>>,
      before |-> <<"">>, after |-> Body,
      assets |-> Assets(TRUE, 1, 0),
      clean |-> FALSE, net |-> <<>>, icon |-> "ok", old |-> NoDir,
      package |-> FALSE, upload_config |-> NoUploadConfig, zip |-> "ok" ]

InitOf(sc) ==
    /\ pc = "start"
    /\ script = [ candidates |-> sc.candidates,
                  filename |-> sc.filename,
                  content |-> <<sc.opening>>
                              \o sc.head
                              \o Directives(k_name, sc.name)
                              \o Directives(k_version, sc.version)
                              \o Directives(k_description, sc.description)
                              \o <<s_comment>>
                              \o Directives(k_match, sc.matches)
                              \o Directives(k_grant, sc.grants)
                              \o Directives(k_require, sc.requires)
                              \o Directives(k_connect, sc.connects)
                              \o <<sc.closing>>,
                  before |-> sc.before,
                  after |-> sc.after ]
    /\ store_assets = sc.assets
    /\ env = [ clean |-> sc.clean, net |-> sc.net, icon |-> sc.icon, old |-> sc.old,
               package |-> sc.package, upload_config |-> sc.upload_config,
               zip |-> sc.zip ]
    /\ dir = sc.old
    /\ metadata = None
    /\ lib_files = <<>>
    /\ manifest = None
    /\ converted_code = None
    /\ warnings = {}
    /\ error = "none"
    /\ returned = "none"
    /\ zip_file = None
    /\ opened = <<>>
    /\ exit_code = <<>>

RequireUrls == {s_url_foo, s_url_foo2, s_url_jquery}

\* Builds that differ in what they fetch, in the earlier build they find, in
\* the clean flag, in whether icon generation works, and in the script file.
Scenarios ==
    { [Base EXCEPT !.requires = r, !.net = n, !.icon = i, !.clean = c, !.old = o] :
        r \in SeqsUpTo(RequireUrls, MaxRequires),
        n \in SeqsUpTo(FetchOutcomes, MaxRequires),
        i \in IconOutcomes, c \in BOOLEAN, o \in OldDirs }

Init ==
    \E sc \in {s \in Scenarios : Len(s.net) = Len(s.requires)}
              \cup {[Base EXCEPT !.candidates = k] : k \in {0, 2}}
              \cup {[Base EXCEPT !.opening = s_opening \o <<" ">>]} :
        InitOf(sc)

Spec == Init /\ [][Next]_vars

Capabilities ==
    {s_none, s_GM_addStyle, s_GM_setValue, s_GMdot_setValue, s_GM_xmlHttpRequest,
     s_GM_download, s_unsafeWindow}

Bodies == {Body, <<"">>, <<"", "x = 1;">>}

\* Scripts that differ in their @grant lines and in their code.
InitConvert ==
    \E g \in SeqsUpTo(Capabilities, MaxGrants), b \in Bodies :
        InitOf([Base EXCEPT !.grants = g, !.after = b])

SpecConvert == InitConvert /\ [][Next]_vars

ConnectHosts == {s_example_com, s_api_test}

MatchLists == {<<>>, <<s_all_urls>>, <<s_match_example>>, <<s_match_example, s_all_urls>>}

\* Scripts that differ in their @grant, @connect and @match lines.
InitManifest ==
    \E g \in SeqsUpTo(Capabilities, MaxGrants),
       c \in SeqsUpTo(ConnectHosts, MaxConnects),
       m \in MatchLists :
        InitOf([Base EXCEPT !.grants = g, !.connects = c, !.matches = m])

SpecManifest == InitManifest /\ [][Next]_vars

VersionChars == {"v", "V", "1", "2", ".", "x"}

Versions ==
    (SeqsUpTo(VersionChars, MaxVersionLen) \ {<<>>})
    \cup {s_v10, s_v23, s_1234, s_V100, s_beta}

\* Scripts that differ in their @version line.
InitVersion ==
    \E v \in Versions : InitOf([Base EXCEPT !.version = <<v>>])

SpecVersion == InitVersion /\ [][Next]_vars

Descriptions ==
    { <<>>, <<s_Bar>>, <<s_Unnamed_Script>> }
    \cup { <<Repeat(<<"d">>, n)>> : n \in (DescriptionLimit - 1)..(DescriptionLimit + 1) }

Names ==
    { <<>>, <<s_Foo>> }
    \cup { <<Repeat(<<"n">>, n)>> : n \in (NameLimit - 1)..(NameLimit + 1) }

\* Scripts that differ in what validate_store_readiness reads.
InitValidate ==
    \E d \in Descriptions, n \in Names,
       m \in {<<>>, <<s_all_urls>>}, v \in {s_v10, s_beta, s_v23} :
        InitOf([Base EXCEPT !.description = d, !.name = n, !.matches = m,
                            !.version = <<v>>])

SpecValidate == InitValidate /\ [][Next]_vars

\* Script directories that differ in their store_assets.
InitAssets ==
    \E a \in {NoAssets} \cup { Assets(icon, npng, njpg) :
                                 icon \in BOOLEAN, npng \in 0..MaxScreenshots,
                                 njpg \in 0..1 },
       c \in BOOLEAN, o \in {NoDir, PreviousBuild} :
        InitOf([Base EXCEPT !.assets = a, !.clean = c, !.old = o])

SpecAssets == InitAssets /\ [][Next]_vars

(***************************************************************************)
(* Where a run is.                                                         *)
(***************************************************************************)
\* parse returned: metadata is the parsed record.
Parsed ==
    /\ pc \notin {"start", "found"}
    /\ error \notin {"no_script", "multiple_scripts", "no_metadata_block"}

ReadinessErrors == {"description_required", "description_too_long", "name_too_long"}

\* validate_store_readiness was called and returned or raised.
ReadinessChecked == Parsed /\ pc /= "parsed"

\* validate_store_assets was called and returned or raised.
AssetsChecked ==
    \/ pc \in {"assets_ok", "fetched", "manifest_written", "content_written", "built"}
    \/ pc = "failed" /\ error \in {"no_store_assets", "no_icon", "no_screenshots",
                                   "fetch_all_raised", "icon_generation_failed"}

\* fetch_all was called, or skipped for want of @require lines.
FetchDone ==
    \/ pc \in {"fetched", "manifest_written", "content_written", "built"}
    \/ pc = "failed" /\ error \in {"fetch_all_raised", "icon_generation_failed"}

\* manifest.json was written by this run.
ManifestWritten ==
    \/ pc \in {"manifest_written", "content_written", "built"}
    \/ pc = "failed" /\ error = "icon_generation_failed"

\* content.js was written by this run.
ContentWritten ==
    \/ pc \in {"content_written", "built"}
    \/ pc = "failed" /\ error = "icon_generation_failed"

\* build_script is over.
Ended == pc \in {"built", "failed"}

\* The code body convert was given.
CodeBody == extract_code_body(script.before, script.after)

\* The first lines of the shim snippets.
SnippetHeads == {polyfills[api][1] : api \in DOMAIN polyfills}

\* The line that closes the wrapper, when code opens with the polyfill.
WrapperEnd(code) ==
    CHOOSE i \in 1..Len(code) :
        code[i] = WrapperClose /\ \A j \in 1..(i - 1) : code[j] /= WrapperClose

HasPolyfill(code) == code[1] = PolyfillHeader

IsSnippetHead(line) == line \in SnippetHeads

\* The first lines of the snippets inside the wrapper, in order.
ShimsIn(code) ==
    IF HasPolyfill(code)
    THEN SelectSeq(SubSeq(code, 1, WrapperEnd(code) - 1), IsSnippetHead)
    ELSE <<>>

\* A list without its repetitions, first-seen order kept.
RECURSIVE Dedup(_)
Dedup(s) ==
    IF s = <<>> THEN <<>>
    ELSE LET front == Dedup(SubSeq(s, 1, Len(s) - 1))
             last == s[Len(s)]
         IN  IF last \in Range(front) THEN front ELSE Append(front, last)

InShimTable(api) == api \in DOMAIN polyfills

(***************************************************************************)
(* C1. With @grant GM_addStyle and @grant GM_setValue, in that order,      *)
(* content.js holds exactly two shim snippets inside the wrapper, the      *)
(* GM_addStyle one first and another one second, and the code body follows *)
(* the wrapper's closing line after exactly one empty line.                *)
(* The code emits one snippet: its shim table is keyed GM.setValue, so     *)
(* GM_setValue finds nothing.                                              *)
(***************************************************************************)
C1_TwoShimsThenBody ==
    (ContentWritten /\ metadata.grant_permissions = <<s_GM_addStyle, s_GM_setValue>>)
    => /\ HasPolyfill(converted_code)
       /\ Len(ShimsIn(converted_code)) = 2
       /\ ShimsIn(converted_code)[1] = snippet_GM_addStyle[1]
       /\ ShimsIn(converted_code)[2] /= snippet_GM_addStyle[1]
       /\ SubSeq(converted_code, WrapperEnd(converted_code) + 1, Len(converted_code))
              = <<"">> \o CodeBody

(***************************************************************************)
(* C2. The snippets in content.js are those of the granted GM identifiers  *)
(* with repetitions dropped, in first-seen order: a capability granted     *)
(* twice gives its snippet once, an identifier the shim table lacks gives  *)
(* none, and convert raises nothing.                                       *)
(* The code keeps the repetitions: get_required_apis filters, no more.     *)
(***************************************************************************)
C2_ShimsDeduplicated ==
    ContentWritten
    => LET apis == SelectSeq(Dedup(get_required_apis(metadata)), InShimTable)
       IN  ShimsIn(converted_code) = [i \in 1..Len(apis) |-> polyfills[apis[i]][1]]

(***************************************************************************)
(* C3. When no grant other than "none" starts with "GM", content.js is the *)
(* code body, line for line: no header, no wrapper, no separator.          *)
(***************************************************************************)
NoGmGrant ==
    \A i \in DOMAIN metadata.grant_permissions :
        LET g == metadata.grant_permissions[i]
        IN  g = s_none \/ Len(g) < 2 \/ g[1] /= "G" \/ g[2] /= "M"

C3_NoGmGrantBodyUnchanged ==
    (ContentWritten /\ NoGmGrant) => converted_code = CodeBody

C3_Witness ==
    /\ ContentWritten
    /\ metadata.grant_permissions = <<s_unsafeWindow, s_none>>
    /\ converted_code = <<"(function() {", "    console.log('hi');", "})();">>

\* A list of str in strictly ascending order.
StrictlySorted(s) == \A i, j \in DOMAIN s : i < j => StrLess(s[i], s[j])

OnlyNoneGranted == Range(metadata.grant_permissions) \subseteq {s_none}

(***************************************************************************)
(* C4, as claimed. When the grants are only "none" (or there is none), the *)
(* permission mapping gives an empty permissions list and an empty host    *)
(* permissions list.                                                       *)
(* _get_host_permissions also takes every @connect value.                  *)
(***************************************************************************)
C4_NoneGivesNoPermissionsNoHosts ==
    (ManifestWritten /\ OnlyNoneGranted)
    => /\ _get_permissions(metadata) = <<>>
       /\ _get_host_permissions(metadata) = <<>>

(***************************************************************************)
(* C4, amended. When the grants are only "none", the permissions list is   *)
(* empty and the host permissions list holds the @connect values and       *)
(* nothing else, sorted and without repetition: it is empty exactly when   *)
(* the script declares no @connect.                                        *)
(***************************************************************************)
C4_NoneGivesOnlyConnectHosts ==
    (ManifestWritten /\ OnlyNoneGranted)
    => /\ _get_permissions(metadata) = <<>>
       /\ "permissions" \notin DOMAIN manifest
       /\ Range(_get_host_permissions(metadata)) = Range(metadata.connect_urls)
       /\ StrictlySorted(_get_host_permissions(metadata))
       /\ (_get_host_permissions(metadata) = <<>>) <=> (metadata.connect_urls = <<>>)

C4_Witness ==
    /\ ManifestWritten
    /\ metadata.grant_permissions = <<s_none>>
    /\ metadata.connect_urls = <<s_example_com, s_api_test>>
    /\ manifest.host_permissions = <<s_api_test, s_example_com>>

\* The dot-separated components of the manifest's version.
ManifestVersionParts == Split(manifest.version, ".")

VersionExamples ==
    /\ metadata.version = <<"1">> => manifest.version = <<"1", ".", "0", ".", "0">>
    /\ metadata.version = s_v23 => manifest.version = <<"2", ".", "3", ".", "0">>
    /\ metadata.version = s_1234 => manifest.version = s_1234
    /\ metadata.version = s_V100 => manifest.version = <<"1", ".", "0", ".", "0">>

\* The version without its leading v and V characters.
Unprefixed(v) ==
    LET k == CHOOSE n \in 0..Len(v) :
                 /\ \A i \in 1..n : v[i] \in {"v", "V"}
                 /\ n < Len(v) => v[n + 1] \notin {"v", "V"}
    IN  SubSeq(v, k + 1, Len(v))

VersionPadded ==
    LET given == Split(Unprefixed(metadata.version), ".")
    IN  IF Len(given) >= 3
        THEN manifest.version = Unprefixed(metadata.version)
        ELSE /\ Len(ManifestVersionParts) = 3
             /\ ManifestVersionParts = given \o [i \in 1..(3 - Len(given)) |-> <<"0">>]

(***************************************************************************)
(* C5, as claimed. The manifest version is the script's version without    *)
(* its leading v/V, padded with ".0" to three components when it has       *)
(* fewer, and for every build that passes validation it has at least three *)
(* dot-separated numeric components.                                       *)
(* A version that is not numeric only draws a warning: "x" passes          *)
(* validation and gives "x.0.0".                                           *)
(***************************************************************************)
C5_VersionNormalizedNumeric ==
    ManifestWritten
    => /\ VersionExamples
       /\ VersionPadded
       /\ Len(ManifestVersionParts) >= 3
       /\ \A i \in DOMAIN ManifestVersionParts : AllDigits(ManifestVersionParts[i])

(***************************************************************************)
(* C5, amended. The manifest version is the script's version without its   *)
(* leading v/V, padded with ".0" to three components when it has fewer and *)
(* unchanged otherwise; it has at least three dot-separated components,    *)
(* and they are numeric whenever the unprefixed version is one to four     *)
(* dot-separated runs of digits (the form the validator warns about when   *)
(* it is not met).                                                         *)
(***************************************************************************)
C5_VersionNormalized ==
    ManifestWritten
    => /\ VersionExamples
       /\ VersionPadded
       /\ Len(ManifestVersionParts) >= 3
       /\ "version_format" \notin warnings
          => \A i \in DOMAIN ManifestVersionParts : AllDigits(ManifestVersionParts[i])
       /\ ("version_format" \in warnings)
          <=> ~( /\ Len(Split(Unprefixed(metadata.version), ".")) <= 4
                 /\ \A p \in Range(Split(Unprefixed(metadata.version), ".")) : AllDigits(p) )

C5_Witness ==
    /\ ManifestWritten
    /\ metadata.version = s_v23
    /\ manifest.version = <<"2", ".", "3", ".", "0">>
    /\ "version_format" \notin warnings

\* The files in lib/ that an earlier build left: fetch overwrites no file.
LeftInLib == {f \in DOMAIN FilesIn(dir, s_lib) : FilesIn(dir, s_lib)[f] = Old}

\* Whether the fetch of the i-th @require gave a file: it was downloaded,
\* or a file of its name was in lib/ already (left by an earlier build or
\* by an earlier @require of this run).
RECURSIVE FetchGaveFile(_, _)
FetchGaveFile(i, before) ==
    \/ env.net[i] = "ok"
    \/ FetchFilename(metadata.require_urls[i]) \in before
    \/ \E j \in 1..(i - 1) :
           /\ FetchFilename(metadata.require_urls[j]) = FetchFilename(metadata.require_urls[i])
           /\ FetchGaveFile(j, before)

\* "lib/" + filename for each @require whose fetch gave a file, in order.
ExpectedLibJs(before) ==
    LET idx == SelectSeq([i \in 1..Len(metadata.require_urls) |-> i],
                         LAMBDA i : FetchGaveFile(i, before))
    IN  [k \in 1..Len(idx) |-> s_lib_slash \o FetchFilename(metadata.require_urls[idx[k]])]

(***************************************************************************)
(* C6. Whatever the @require lines, fetching never aborts the build, and   *)
(* the manifest's js list is "lib/" + file name for each @require whose    *)
(* fetch gave a file, in the order of the @require lines, then             *)
(* "content.js", once and last.                                            *)
(* With exactly one @require line fetch_all raises NameError (the name y   *)
(* in its warning's f-string) and the build fails before the manifest.     *)
(***************************************************************************)
C6_JsListFollowsRequires ==
    /\ FetchDone => error /= "fetch_all_raised"
    /\ ManifestWritten
       => manifest.content_scripts[1].js
              = ExpectedLibJs(LeftInLib) \o <<s_content_js>>

\* The permission tokens the grants map to, from the table's rows: every
\* token but the universal-host one.
MappedPermissions ==
    { t \in UNION { Range(GM_API_PERMISSIONS[g]) :
                      g \in Range(metadata.grant_permissions) \cap DOMAIN GM_API_PERMISSIONS } :
        t /= s_all_urls }

\* The host patterns the record maps to: the universal one when a grant's
\* row holds it, and the @connect values.
MappedHosts ==
    { t \in UNION { Range(GM_API_PERMISSIONS[g]) :
                      g \in Range(metadata.grant_permissions) \cap DOMAIN GM_API_PERMISSIONS } :
        t = s_all_urls }
    \cup Range(metadata.connect_urls)

(***************************************************************************)
(* C7. The manifest has the key "permissions" iff the mapped permission    *)
(* set is not empty, and "host_permissions" iff the mapped host set is not *)
(* empty, and then the list is not empty and holds that set; matches are   *)
(* the @match values, or ["<all_urls>"] when there is none.  The script    *)
(* @name Foo, @version 1.0, @description Bar, @grant none without @match   *)
(* gives matches ["<all_urls>"], neither key, js ["content.js"] and        *)
(* version "1.0.0".                                                        *)
(***************************************************************************)
C7_ManifestKeys ==
    ManifestWritten
    => /\ ("permissions" \in DOMAIN manifest) <=> (MappedPermissions /= {})
       /\ "permissions" \in DOMAIN manifest
          => manifest.permissions /= <<>>
             /\ Range(manifest.permissions) = MappedPermissions
       /\ ("host_permissions" \in DOMAIN manifest) <=> (MappedHosts /= {})
       /\ "host_permissions" \in DOMAIN manifest
          => manifest.host_permissions /= <<>>
             /\ Range(manifest.host_permissions) = MappedHosts
       /\ manifest.content_scripts[1].matches
              = IF metadata.match_patterns = <<>> THEN <<s_all_urls>>
                ELSE metadata.match_patterns
       /\ ( /\ metadata.name = s_Foo
            /\ metadata.version = s_v10
            /\ metadata.description = s_Bar
            /\ metadata.grant_permissions = <<s_none>>
            /\ metadata.match_patterns = <<>>
            /\ metadata.connect_urls = <<>>
            /\ metadata.require_urls = <<>> )
          => /\ manifest.content_scripts[1].matches = <<s_all_urls>>
             /\ "permissions" \notin DOMAIN manifest
             /\ "host_permissions" \notin DOMAIN manifest
             /\ manifest.content_scripts[1].js = <<s_content_js>>
             /\ manifest.version = <<"1", ".", "0", ".", "0">>

C7_Witness ==
    /\ ManifestWritten
    /\ metadata.name = s_Foo
    /\ metadata.version = s_v10
    /\ metadata.description = s_Bar
    /\ metadata.grant_permissions = <<s_none>>
    /\ metadata.match_patterns = <<>>
    /\ metadata.connect_urls = <<>>
    /\ DOMAIN manifest = {"manifest_version", "name", "version", "description",
                          "content_scripts", "icons"}

\* manifest.json as this run wrote it declares the icons.
ManifestOnDiskDeclaresIcons ==
    /\ <<s_manifest_json>> \in DOMAIN dir.files
    /\ dir.files[<<s_manifest_json>>] /= Old
    /\ "icons" \in DOMAIN dir.files[<<s_manifest_json>>].doc

(***************************************************************************)
(* C8. When build_script is over, the manifest.json it wrote declares the  *)
(* icons iff icon generation succeeded in that run.                        *)
(* build_script passes has_icons=True and writes manifest.json before it   *)
(* generates the icons: when generation fails the file declares icons that *)
(* were not made.                                                          *)
(***************************************************************************)
C8_IconsIffGenerated ==
    (Ended /\ ManifestWritten)
    => (ManifestOnDiskDeclaresIcons <=> pc = "built")

\* The description is missing: empty, or the parser's placeholder name.
NoDescription ==
    metadata.description = <<>> \/ metadata.description = s_Unnamed_Script

(***************************************************************************)
(* C9. validate_store_readiness raises iff the description is empty or     *)
(* "Unnamed Script", or longer than 132 characters, or the name is longer  *)
(* than 75; the error is that of the first rule broken, in the order       *)
(* description present, description length, name length; 132 characters    *)
(* pass and 133 do not; "<all_urls>" among the matches and a version that  *)
(* is not numeric only warn.                                               *)
(***************************************************************************)
C9_ReadinessRules ==
    ReadinessChecked
    => /\ (error \in ReadinessErrors)
          <=> (NoDescription \/ Len(metadata.description) > 132 \/ Len(metadata.name) > 75)
       /\ NoDescription => error = "description_required"
       /\ (~NoDescription /\ Len(metadata.description) >= 133)
          => error = "description_too_long"
       /\ (~NoDescription /\ Len(metadata.description) <= 132 /\ Len(metadata.name) >= 76)
          => error = "name_too_long"
       /\ (Len(metadata.description) = 132 /\ Len(metadata.name) <= 75)
          => error \notin ReadinessErrors
       /\ (error \notin ReadinessErrors /\ s_all_urls \in Range(metadata.match_patterns))
          => "all_urls" \in warnings
       /\ (error \notin ReadinessErrors /\ metadata.version = s_beta)
          => "version_format" \in warnings

C9_Witness ==
    /\ ReadinessChecked
    /\ Len(metadata.description) = 133
    /\ Len(metadata.name) = 76
    /\ s_all_urls \in Range(metadata.match_patterns)
    /\ error = "description_too_long"

\* The supplementary images of store_assets: its *.png and *.jpg files
\* other than the required icon.png.
Screenshots ==
    {f \in store_assets.files : EndsWith(f, s_dot_png) \/ EndsWith(f, s_dot_jpg)}
    \ {s_icon_png}

(***************************************************************************)
(* C10. With icon.png in store_assets, the asset check of the build raises *)
(* when there is no screenshot, passes with a warning when there are more  *)
(* than five, passes silently for one to five, and counts the screenshots  *)
(* without the icon.                                                       *)
(* The code globs *.png in store_assets itself, so icon.png counts as a    *)
(* screenshot: the check passes with none, and warns from five on.         *)
(***************************************************************************)
C10_ScreenshotRules ==
    (AssetsChecked /\ store_assets.exists /\ s_icon_png \in store_assets.files)
    => /\ (Cardinality(Screenshots) = 0) <=> (error = "no_screenshots")
       /\ (Cardinality(Screenshots) > 5) <=> ("too_many_screenshots" \in warnings)
       /\ Cardinality(Screenshots) > 0
          => validate_store_assets(store_assets).screenshot_count = Cardinality(Screenshots)


(***************************************************************************)
(* Script files that differ in the lines of their metadata block.          *)
(***************************************************************************)
MaxBlockLines == 2

l_name == <<"/", "/", " ", "@", "n", "a", "m", "e", " ", "B", "a", "z">>
l_name_spaced == <<" ", " ", "/", "/", " ", "@", "n", "a", "m", "e", " ", " ", "Q", "u", "x", " ", "q", "u", "u", "x", " ", " ">>
l_run_at == <<"/", "/", " ", "@", "r", "u", "n", "-", "a", "t", " ", "d", "o", "c", "u", "m", "e", "n", "t", "-", "s", "t", "a", "r", "t">>
l_runAt == <<"/", "/", " ", "@", "r", "u", "n", "A", "t", " ", "d", "o", "c", "u", "m", "e", "n", "t", "-", "i", "d", "l", "e">>
l_grant_tab == <<"/", "/", " ", "@", "g", "r", "a", "n", "t", "\t", "G", "M", "_", "a", "d", "d", "S", "t", "y", "l", "e">>
l_description == <<"/", "/", " ", "@", "d", "e", "s", "c", "r", "i", "p", "t", "i", "o", "n", " ", "B", "a", "r">>
l_noframes == <<"/", "/", " ", "@", "n", "o", "f", "r", "a", "m", "e", "s">>
l_unspaced == <<"/", "/", "@", "n", "a", "m", "e", " ", "F", "o", "o">>
l_Name == <<"/", "/", " ", "@", "N", "a", "m", "e", " ", "F", "o", "o">>
l_custom == <<"/", "/", " ", "@", "x", "-", "c", "u", "s", "t", "o", "m", " ", "a", " ", "/", "/", " ", "b">>
l_empty == <<>>
l_closing_author == <<"/", "/", " ", "@", "a", "u", "t", "h", "o", "r", " ", "A", "l", " ", "/", "/", " ", "=", "=", "/", "U", "s", "e", "r", "S", "c", "r", "i", "p", "t", "=", "=">>
s_Qux_quux == <<"Q", "u", "x", " ", "q", "u", "u", "x">>
k_x_custom == <<"x", "-", "c", "u", "s", "t", "o", "m">>

\* Lines a metadata block may hold: directives, indented or spaced out or
\* with a tab, both spellings of run-at, a key in another case, a key parse
\* does not read, a directive without value, and lines that are no directive.
BlockLines ==
    {l_name, l_name_spaced, l_run_at, l_runAt, l_grant_tab, l_description,
     l_noframes, l_unspaced, l_Name, l_custom, l_empty}

\* The block is up to MaxBlockLines of these lines, followed or not by the
\* directives of the minimal script, closed by the marker on a line of its
\* own or at the end of a directive line.
InitParse ==
    \E h \in SeqsUpTo(BlockLines, MaxBlockLines), b \in BOOLEAN,
       c \in {s_closing, l_closing_author} :
        InitOf(IF b THEN [Base EXCEPT !.head = h, !.closing = c,
                                      !.grants = <<s_none, s_GM_addStyle>>]
               ELSE [Base EXCEPT !.head = h, !.closing = c, !.name = <<>>,
                                 !.version = <<>>, !.description = <<>>,
                                 !.grants = <<>>])

SpecParse == InitParse /\ [][Next]_vars

\* The lines of the metadata block of the script file.
Block == _extract_metadata_block(script.content).block

\* What METADATA_LINE_PATTERN finds on each line of the block.
BlockMatches == [i \in DOMAIN Block |-> METADATA_LINE_PATTERN(Strip(Block[i]))]

\* The values the directive lines give for a key, in the order of the lines.
RECURSIVE ValuesIn(_, _)
ValuesIn(ms, key) ==
    IF ms = <<>> THEN <<>>
    ELSE (IF Head(ms).match /\ Head(ms).key = key THEN <<Head(ms).value>> ELSE <<>>)
         \o ValuesIn(Tail(ms), key)

KeysIn(ms) == { ms[i].key : i \in { j \in DOMAIN ms : ms[j].match } }

FirstOr(ms, key, default) ==
    The({ IF vs /= <<>> THEN vs[1] ELSE default : vs \in {ValuesIn(ms, key)} })

AllOr(ms, key, default) ==
    The({ IF vs /= <<>> THEN vs ELSE default : vs \in {ValuesIn(ms, key)} })

(***************************************************************************)
(* C11. Directive lines with the same key accumulate under it in the order *)
(* they appear; each scalar field of the record is the first value         *)
(* recorded for its key or its default, each list field is all the values  *)
(* recorded or its default list (the grants are never empty, ["none"] by   *)
(* default), and runAt is the first "run-at" value if there is one, else   *)
(* the first "runAt" value, else "document-end", whichever spelling comes  *)
(* first in the block.                                                     *)
(***************************************************************************)
C11_ParsedRecord ==
    Parsed => \A ms \in {BlockMatches} :
        /\ DOMAIN metadata.raw_metadata = KeysIn(ms)
        /\ \A k \in KeysIn(ms) : metadata.raw_metadata[k] = ValuesIn(ms, k)
        /\ metadata.name = FirstOr(ms, k_name, s_Unnamed_Script)
        /\ metadata.namespace = FirstOr(ms, k_namespace, <<>>)
        /\ metadata.version = FirstOr(ms, k_version, s_v100)
        /\ metadata.description = FirstOr(ms, k_description, <<>>)
        /\ metadata.author = FirstOr(ms, k_author, <<>>)
        /\ metadata.license = FirstOr(ms, k_license, s_MIT)
        /\ metadata.icon_url = FirstOr(ms, k_icon, None)
        /\ metadata.update_url = FirstOr(ms, k_updateURL, None)
        /\ metadata.download_url = FirstOr(ms, k_downloadURL, None)
        /\ metadata.support_url = FirstOr(ms, k_supportURL, None)
        /\ metadata.homepage_url = FirstOr(ms, k_homepage, None)
        /\ metadata.match_patterns = AllOr(ms, k_match, <<>>)
        /\ metadata.grant_permissions = AllOr(ms, k_grant, <<s_none>>)
        /\ metadata.grant_permissions /= <<>>
        /\ metadata.require_urls = AllOr(ms, k_require, <<>>)
        /\ metadata.resource_urls = AllOr(ms, k_resource, <<>>)
        /\ metadata.connect_urls = AllOr(ms, k_connect, <<>>)
        /\ metadata.run_at = FirstOr(ms, k_run_at, FirstOr(ms, k_runAt, s_document_end))

\* A parsed block that holds "runAt" before "run-at" and two grant lines.
C11_Witness ==
    /\ Parsed
    /\ SubSeq(script.content, 2, 3) = <<l_runAt, l_run_at>>
    /\ metadata.run_at = s_document_start
    /\ k_name \in DOMAIN metadata.raw_metadata
    /\ metadata.raw_metadata[k_name] = <<s_Foo>>
    /\ metadata.grant_permissions = <<s_none, s_GM_addStyle>>

(***************************************************************************)
(* C12. Writing every (key, value) of raw_metadata back as a line          *)
(* "// @key value" between the two markers and parsing that text gives a   *)
(* record equal to the first one, raw_metadata included.  The keys are     *)
(* written in the order the dict holds them (first seen first), and in     *)
(* code-point order as well.                                               *)
(***************************************************************************)
RECURSIVE FirstSeen(_)
FirstSeen(ms) ==
    IF ms = <<>> THEN <<>>
    ELSE LET front == FirstSeen(SubSeq(ms, 1, Len(ms) - 1))
             last == ms[Len(ms)]
         IN  IF last.match /\ last.key \notin Range(front)
             THEN Append(front, last.key) ELSE front

RECURSIVE Serialize(_, _)
Serialize(raw, keys) ==
    IF keys = <<>> THEN <<>>
    ELSE Directives(Head(keys), raw[Head(keys)]) \o Serialize(raw, Tail(keys))

Reparse(raw, keys) ==
    LET r == _extract_metadata_block(<<s_opening>> \o Serialize(raw, keys) \o <<s_closing>>)
    IN  IF r.raised THEN None ELSE ParseMetadata(r.block)

InitAbort ==
    \E c \in BOOLEAN, o \in OldDirs :
        \/ \E d \in Descriptions, n \in Names :
               InitOf([Base EXCEPT !.description = d, !.name = n, !.clean = c, !.old = o])
        \/ InitOf([Base EXCEPT !.opening = s_opening \o <<" ">>, !.clean = c, !.old = o])
        \/ InitOf([Base EXCEPT !.opening = s_closing, !.closing = s_opening,
                               !.clean = c, !.old = o])

SpecAbort == InitAbort /\ [][Next]_vars

\* The run wrote nothing and removed nothing.
OutputUntouched ==
    /\ dir = env.old
    /\ manifest = None
    /\ converted_code = None
    /\ lib_files = <<>>
    /\ zip_file = None

(***************************************************************************)
(* C13. When the metadata block is missing or a fatal rule of              *)
(* validate_store_readiness is violated, build_script aborts before        *)
(* anything is written: from the abort on, the output directory is as the  *)
(* run found it (not created, not cleaned, no file added), and no          *)
(* manifest.json, content.js, lib file or icon is written.                 *)
(***************************************************************************)
C13_AbortBeforeOutput ==
    (pc = "failed" /\ error \in {"no_metadata_block"} \cup ReadinessErrors)
        => OutputUntouched

\* A run with the clean flag over an earlier build, rejected for its
\* description, and over.
C13_Witness ==
    /\ pc = "failed"
    /\ error = "description_too_long"
    /\ env.clean
    /\ env.old = PreviousBuildWithLib
    /\ exit_code = <<1>>

(***************************************************************************)
(* Builds with and without --package: script file names, contents of       *)
(* store_assets/upload_config.json, outcomes of writing the archive, and   *)
(* builds that fail at each earlier step.                                  *)
(***************************************************************************)
s_foo_user_js == <<"f", "o", "o", ".", "u", "s", "e", "r", ".", "j", "s">>
s_my_ext == <<"m", "y", "-", "e", "x", "t">>
s_store_url == <<"h", "t", "t", "p", "s", ":", "/", "/", "s", "t", "o", "r", "e", ".", "t", "e", "s", "t">>

UploadConfig(ks, urls) ==
    [exists |-> TRUE, valid |-> TRUE, keys |-> ks,
     zip_filename |-> IF s_zip_filename \in ks THEN s_my_ext ELSE <<>>,
     upload_urls |-> IF s_upload_urls \in ks THEN urls ELSE <<>>]

UploadConfigs ==
    { NoUploadConfig, [NoUploadConfig EXCEPT !.exists = TRUE] }
    \cup { UploadConfig(ks, <<s_store_url>>) : ks \in SUBSET {s_zip_filename, s_upload_urls} }
    \cup { UploadConfig({s_zip_filename, s_upload_urls}, <<>>) }

\* Scripts and script directories on which a step before packaging fails.
FailingBuilds ==
    { [Base EXCEPT !.candidates = 0],
      [Base EXCEPT !.opening = s_opening \o <<" ">>],
      [Base EXCEPT !.description = <<>>],
      [Base EXCEPT !.assets = NoAssets],
      [Base EXCEPT !.requires = <<s_url_foo>>, !.net = <<"ok">>],
      [Base EXCEPT !.icon = "bad_image"] }

InitPackage ==
    \E b \in {Base} \cup FailingBuilds, f \in {s_foo_js, s_foo_user_js},
       p \in BOOLEAN, u \in UploadConfigs, z \in ZipOutcomes :
        InitOf([b EXCEPT !.filename = f, !.package = p, !.upload_config = u, !.zip = z])

SpecPackage == InitPackage /\ [][Next]_vars

\* main has called sys.exit.
Exited == exit_code /= <<>>

\* Every step the command line asked for succeeded: the extension was
\* built and, with --package, the archive was created and copied.
EveryStepSucceeded ==
    /\ pc = "built"
    /\ env.package => env.zip = "ok"

(***************************************************************************)
(* C14. The process exits with code 0 iff every requested step of the      *)
(* build succeeded and with code 1 on any failure, a failure to create the *)
(* ZIP archive under --package included.                                   *)
(* The code exits with 0 when package_extension fails: it returns None and *)
(* build_script returns True all the same.                                 *)
(***************************************************************************)
C14_ExitCode ==
    Exited => /\ exit_code \in {<<0>>, <<1>>}
              /\ (exit_code = <<0>>) <=> EveryStepSucceeded

\* str.removesuffix for the two extensions of a userscript file.
BaseName(filename) ==
    IF EndsWith(filename, s_dot_user_js)
    THEN SubSeq(filename, 1, Len(filename) - Len(s_dot_user_js))
    ELSE IF EndsWith(filename, s_dot_js)
    THEN SubSeq(filename, 1, Len(filename) - Len(s_dot_js))
    ELSE filename

\* upload_config.json is there, is JSON and declares the key.
Declares(key) ==
    env.upload_config.exists /\ env.upload_config.valid /\ key \in env.upload_config.keys

(***************************************************************************)
(* C15. Under --package the archive is named "<zip_filename>.zip" whenever *)
(* upload_config.json declares zip_filename, with or without upload_urls,  *)
(* and otherwise "<base>.zip", <base> being the script's file name without *)
(* its .js or .user.js extension; upload pages are opened only after the   *)
(* archive was created and only when upload_urls is configured.            *)
(* The code drops the whole config when upload_urls is missing, and takes  *)
(* only ".js" off "foo.user.js".                                           *)
(***************************************************************************)
C15_ArchiveName ==
    /\ (returned = "True" /\ env.package /\ zip_file /= None)
           => zip_file = (IF Declares(s_zip_filename)
                          THEN env.upload_config.zip_filename
                          ELSE BaseName(script.filename)) \o s_dot_zip
    /\ opened /= <<>> => (zip_file /= None /\ Declares(s_upload_urls))

\* The clean loop was run: the flag was given, the output directory was
\* there, and the build came to that step.
CleanRan ==
    /\ env.clean
    /\ env.old.exists
    /\ ReadinessChecked
    /\ pc /= "validated"
    /\ error \notin ReadinessErrors

(***************************************************************************)
(* C16. With the clean flag and an existing output directory of any shape, *)
(* top-level files and two or more non-empty subdirectories (icons/ and    *)
(* lib/ of an earlier build) included, the clean step removes every        *)
(* earlier file and subdirectory without raising: the build goes on and    *)
(* the output holds only what this run wrote.                              *)
(* The loop calls rmdir on every directory under the output directory      *)
(* while it handles the first one: the other one still holds its files and *)
(* rmdir raises OSError.                                                   *)
(***************************************************************************)
C16_CleanRemovesEverything ==
    CleanRan => /\ error /= "clean_failed"
                /\ \A p \in DOMAIN dir.files : dir.files[p] /= Old

\* The permission the shim of a capability needs for the chrome.* API it
\* calls (chrome.storage.local, chrome.notifications.create,
\* chrome.tabs.create, chrome.downloads.download).
ShimPermission ==
    (s_GMdot_setValue :> s_storage)
    @@ (s_GMdot_getValue :> s_storage)
    @@ (s_GMdot_deleteValue :> s_storage)
    @@ (s_GMdot_listValues :> s_storage)
    @@ (s_GMdot_notification :> s_notifications)
    @@ (s_GMdot_openInTab :> s_tabs)
    @@ (s_GMdot_download :> s_downloads)

\* convert put the shim of the capability into content.js.
ShimInjected(api) ==
    /\ api \in DOMAIN polyfills
    /\ polyfills[api][1] \in Range(converted_code)

ManifestPermissions ==
    IF "permissions" \in DOMAIN manifest THEN Range(manifest["permissions"]) ELSE {}

(***************************************************************************)
(* C17. The shim table and the permission table agree on the capability    *)
(* identifiers: for every granted capability, if convert injects a shim    *)
(* for it that calls a chrome.* API, the manifest built from the same      *)
(* record lists the matching permission, and every capability that         *)
(* contributes a permission (GM_addStyle's row is empty) receives a shim.  *)
(* The shim table is keyed GM.setValue, the permission table GM_setValue:  *)
(* either spelling gets the shim or the permission, never both.            *)
(***************************************************************************)
C17_ShimsAndPermissionsAgree ==
    ContentWritten =>
        \A g \in Range(metadata.grant_permissions) :
            /\ (g \in DOMAIN ShimPermission /\ ShimInjected(g))
                   => ShimPermission[g] \in ManifestPermissions
            /\ (g \in DOMAIN GM_API_PERMISSIONS /\ GM_API_PERMISSIONS[g] /= <<>>)
                   => ShimInjected(g)

(***************************************************************************)
(* C18. Whenever the manifest's content-script matches contain             *)
(* "<all_urls>", validate_store_readiness logged the universal-host        *)
(* warning for that build, also when the script declares no @match and     *)
(* the manifest falls back to the wildcard.                                *)
(* The validator looks at the declared @match values only: without @match  *)
(* it logs nothing and the manifest matches every URL.                     *)
(***************************************************************************)
C18_AllUrlsWarned ==
    (ManifestWritten /\ s_all_urls \in Range(manifest.content_scripts[1].matches))
        => "all_urls" \in warnings

\* fetch_all was called and returned.
FetchAllReturned ==
    /\ FetchDone
    /\ error /= "fetch_all_raised"
    /\ metadata.require_urls /= <<>>

(***************************************************************************)
(* C19. After fetch_all, whatever lib/ held before, every file name it     *)
(* returned names a file in lib/ whose content is what the URL that gave   *)
(* the name serves: two URLs with the same last path segment do not share  *)
(* one file, no name is returned twice, and a file left by an earlier      *)
(* build is not reported as the download of another URL.                   *)
(* fetch keys the file by the last path segment alone and skips the        *)
(* download when a file of that name exists.                               *)
(***************************************************************************)
C19_ReturnedFilesAreDownloads ==
    FetchAllReturned =>
        /\ \A i, j \in DOMAIN lib_files : lib_files[i] = lib_files[j] => i = j
        /\ \A i \in DOMAIN lib_files : lib_files[i] \in DOMAIN FilesIn(dir, s_lib)
        /\ \A i \in DOMAIN metadata.require_urls :
               FetchGaveFile(i, LeftInLib)
                   => FilesIn(dir, s_lib)[FetchFilename(metadata.require_urls[i])]
                          = Downloaded(metadata.require_urls[i])

(***************************************************************************)
(* C20. A build that fails at any step, with or without the clean flag,    *)
(* leaves a previously built output directory exactly as it was: it is     *)
(* never left emptied or holding a partly written new build.               *)
(* build_script cleans and writes in place and its except clause rolls     *)
(* nothing back.                                                           *)
(***************************************************************************)
C20_FailedBuildKeepsOutput ==
    (pc = "failed" /\ env.old.exists) => dir = env.old
=============================================================================
